---------------------------- MODULE Spec2Model ----------------------------
(***************************************************************************)
(* State-machine model of the plotburn movie API:                          *)
(*   - CronTracker (services/cron.ts) and runDailyRoastGeneration: the     *)
(*     cron_runs run log and lock, the catalog fetch and the enqueue loop  *)
(*   - roasts table (services/database.ts): versioned active roasts        *)
(*   - getOrCreateTruth / handleMovieTruth (handlers/movieRoast.ts):       *)
(*     the cache-aside extraction pipeline over the extractions table      *)
(*   - handleMovieQueueBatch: the queue consumer, with the queue's retry   *)
(*     limit and dead-letter queue                                         *)
(*   - the merge and sendBatch loop of the daily run, the sequential       *)
(*     orchestration loop of its earlier version, and handleMovieRoast     *)
(*     with its watch-provider step                                        *)
(*   - handleNowPlaying / handlePopularMovies: the refresh of a category   *)
(*     in movie_categories, as one batch and as clear-then-add             *)
(*   - Logger (utils/logger.ts): the per-correlation-id buffers of the     *)
(*     scheduled handler and of the run it starts, and their flushes to R2 *)
(*   - checkRateLimit (utils/rateLimit.ts): the per-client counter in KV   *)
(* Every awaited D1 statement or provider call of these functions is a     *)
(* separate step, so that concurrent Worker invocations interleave         *)
(* between them.                                                           *)
(***************************************************************************)
EXTENDS Integers, Sequences, FiniteSets, TLC

\* ------------------------------------------------------------------ bounds
\* concurrent invocations of the cron entry point (scheduled and manual triggers)
NumCallers == 2
\* clock ticks the model follows
MaxTicks == 1
\* concurrent upsertRoast calls (queue consumers and request handlers)
NumWriters == 2
\* concurrent invocations that reach the extraction pipeline
NumInvokers == 2
\* messages on the movie queue
NumMessages == 2
\* messages the platform hands to one handleMovieQueueBatch call
MaxBatch == 2
\* distinct movie ids in the short lists TMDB returns
NumMovieIds == 3
\* length of the short lists TMDB returns
MaxListLen == 2
\* scheduled invocations alive in one isolate
NumScheduled == 2
\* concurrent checkRateLimit calls of one client in one window
NumRateCalls == 3
\* the limit checkRateLimit is called with (maxRequests, 5 by default)
MaxRequests == 2

\* new Date(fetched_at * 1000), Math.floor(Date.now() / 1000)
MsPerSec == 1000
TickMs == MsPerSec \div 2

Callers == 1..NumCallers
NULL == 0 - 1

VARIABLES
    now,        \* Date.now(), in ms
    cron_runs,  \* table cron_runs: row id = index
    caller,     \* per invocation using a CronTracker: pc, job, captured now, runId, ...
    cconc,      \* history: callers whose startRun overlapped this caller's startRun
    cothers,    \* history: callers whose INSERT succeeded during this caller's startRun
    creleased,  \* history: a run of the job ended during this caller's startRun
    roasts,     \* table roasts: row id = index
    writer,     \* per upsertRoast call: pc, movie, language, roast, returned id
    lastRead,   \* the latest getActiveRoast: movie, language, row id or NULL, and
                \* (history) whether the pair had a roast row when it was read
    extractions, \* table extractions: row id = index
    searchKV,   \* SEARCH_KV: per movie, the stored search result or none
    inv,        \* per invocation of handleMovieTruth / getOrCreateTruth: pc, locals,
                \* (history) provider calls and inserts made, and the response
    msgs,       \* per queue message: body, platform state, attempts, and (history) what
                \* its latest delivery did
    cons,       \* per concurrent handleMovieQueueBatch invocation: pc, batch, position
    movie_categories, \* table movie_categories: the rows (movie_id, category)
    committed,  \* (history) per category, the members the last ended refresh left
    refresher,  \* per call of a clear-then-add handler: pc, category, movies to add
    seen,       \* the latest getMoviesByCategory: category and movie ids returned
    last,       \* (history) the latest refresh event: handler version, category,
                \* fetched ids, outcome, and whether the delete dropped a member
    streaming_providers, \* table streaming_providers: per movie, the provider ids (region IN)
    roastCall,  \* one call of handleMovieRoast: pc, movie, the providers to save,
                \* and (history) what the provider step did, the steps that
                \* succeeded, the step that threw, and how the call ended
    loop,       \* one run of the sequential orchestration loop: pc, the number of
                \* merged movies, i, the current roast's outcome, the results
                \* counters, the status, and (history) per movie the calls of
                \* handleMovieRoast made and whether it returned
    logBuffers, \* the Logger module's map: per correlation id, the buffer if there is one
    r2,         \* bucket R2: per correlation id, the log file and (history) the puts made
    sched,      \* per scheduled invocation: pc, how the run ended, and (history) the
                \* entries handed to addEntry
    rateKV,     \* the rate limiter's KV entries of one window: per client, a decimal
                \* string (empty when the key is absent)
    rateCall,   \* per call of checkRateLimit: pc, the count it read, its answer
    enq         \* the merge and enqueue steps of one run: pc, the two fetched lists,
                \* the merged list, the loop index and the sendBatch calls made

cronVars == <<cron_runs, caller, cconc, cothers, creleased>>
roastVars == <<roasts, writer, lastRead>>
truthVars == <<extractions, searchKV, inv>>
queueVars == <<msgs, cons>>
enqVars == <<enq>>
catVars == <<movie_categories, committed, refresher, seen, last>>
callVars == <<streaming_providers, roastCall>>
loopVars == <<loop>>
logVars == <<logBuffers, r2, sched>>
rateVars == <<rateKV, rateCall>>
vars == <<now, cronVars, roastVars, truthVars, queueVars, enqVars, catVars, callVars, loopVars, logVars, rateVars>>

\* an operation of one component leaves the other components' state alone
CronOnly == UNCHANGED <<roastVars, truthVars, queueVars, enqVars, catVars, callVars, loopVars, logVars, rateVars>>
RoastOnly == UNCHANGED <<now, cronVars, truthVars, queueVars, enqVars, catVars, callVars, loopVars, logVars, rateVars>>
TruthOnly == UNCHANGED <<cronVars, roastVars, queueVars, enqVars, catVars, callVars, loopVars, logVars, rateVars>>
QueueOnly == UNCHANGED <<now, cronVars, truthVars, writer, lastRead, enqVars, catVars, callVars, loopVars, logVars, rateVars>>
EnqueueOnly == UNCHANGED <<now, cronVars, roastVars, truthVars, queueVars, catVars, callVars, loopVars, logVars, rateVars>>
CategoryOnly == UNCHANGED <<now, cronVars, roastVars, truthVars, queueVars, enqVars, callVars, loopVars, logVars, rateVars>>
CallOnly == UNCHANGED <<now, cronVars, roastVars, truthVars, queueVars, enqVars, catVars, loopVars, logVars, rateVars>>
LoopOnly == UNCHANGED <<now, cronVars, roastVars, truthVars, queueVars, enqVars, catVars, callVars, logVars, rateVars>>
LogOnly == UNCHANGED <<now, cronVars, roastVars, truthVars, queueVars, enqVars, catVars, callVars, loopVars, rateVars>>
RateOnly == UNCHANGED <<now, cronVars, roastVars, truthVars, queueVars, enqVars, catVars, callVars, loopVars, logVars>>

\* ------------------------------------------------------------------ clock
Tick ==
    /\ now < MaxTicks * TickMs
    /\ now' = now + TickMs
    /\ UNCHANGED <<cronVars, roastVars, truthVars, queueVars, enqVars, catVars, callVars, loopVars, logVars, rateVars>>

\* =================================================================== JSON
\* JSON values, and JSON text as the sequence of its tokens
JNull == [t |-> "null"]
JStr(s) == [t |-> "str", s |-> s]
JArr(items) == [t |-> "arr", items |-> items]
JObj(fields) == [t |-> "obj", fields |-> fields]

\* newline and indentation of JSON.stringify(value, null, 2) at nesting depth d
IndentTok(d) ==
    CASE d = 0 -> "\n" [] d = 1 -> "\n  " [] d = 2 -> "\n    " [] OTHER -> "\n      "

RECURSIVE StringifyAt(_, _, _), StringifyItems(_, _, _, _), StringifyFields(_, _, _, _)
StringifyItems(items, i, pretty, d) ==
    IF i > Len(items) THEN <<>>
    ELSE (IF i > 1 THEN <<",">> ELSE <<>>)
         \o (IF pretty THEN <<IndentTok(d)>> ELSE <<>>)
         \o StringifyAt(items[i], pretty, d)
         \o StringifyItems(items, i + 1, pretty, d)

StringifyFields(fields, i, pretty, d) ==
    IF i > Len(fields) THEN <<>>
    ELSE (IF i > 1 THEN <<",">> ELSE <<>>)
         \o (IF pretty THEN <<IndentTok(d)>> ELSE <<>>)
         \o <<fields[i][1], IF pretty THEN ": " ELSE ":">>
         \o StringifyAt(fields[i][2], pretty, d)
         \o StringifyFields(fields, i + 1, pretty, d)

StringifyAt(v, pretty, d) ==
    CASE v.t = "null" -> <<"null">>
      [] v.t = "str" -> <<"\"", v.s, "\"">>
      [] v.t = "arr" ->
            IF v.items = <<>> THEN <<"[", "]">>
            ELSE <<"[">> \o StringifyItems(v.items, 1, pretty, d + 1)
                 \o (IF pretty THEN <<IndentTok(d)>> ELSE <<>>) \o <<"]">>
      [] v.t = "obj" ->
            IF v.fields = <<>> THEN <<"{", "}">>
            ELSE <<"{">> \o StringifyFields(v.fields, 1, pretty, d + 1)
                 \o (IF pretty THEN <<IndentTok(d)>> ELSE <<>>) \o <<"}">>

\* JSON.stringify(value)
Stringify(v) == StringifyAt(v, FALSE, 0)
\* JSON.stringify(value, null, 2)
StringifyPretty(v) == StringifyAt(v, TRUE, 0)

\* ============================================================ CronTracker
\* the one tracker the handlers construct: new CronTracker(env, 'movie_roast')
JobNames == {"movie_roast"}

RunningRows(rows, job) ==
    {i \in 1..Len(rows) : rows[i].job_name = job /\ rows[i].status = "running"}

\* a lock check that never finds the running row
SelectActive_Never(rows, job) == FALSE

\* SELECT id FROM cron_runs WHERE job_name = ? AND status = 'running' LIMIT 1
SelectActive(rows, job) == RunningRows(rows, job) # {}

\* the index on (job_name) WHERE status = 'running' without UNIQUE
CronRunsUniqueOk_NotUnique(rows) == TRUE

\* the uniqueness constraint on (job_name) filtered by status = 'running'
CronRunsUniqueOk(rows) ==
    \A j \in JobNames : Cardinality(RunningRows(rows, j)) <= 1

\* INSERT INTO cron_runs (job_name, started_at, status) VALUES (?, ?, 'running')
NewRunRow(job, startedAt) ==
    [job_name |-> job, started_at |-> startedAt, status |-> "running",
     finished_at |-> NULL, duration_ms |-> NULL,
     movies_roasted_count |-> NULL, error |-> "NULL"]

\* one invocation of runDailyRoastGeneration: where it is (pc), the locals of
\* the tracker call in progress (job, now, started), runId, movies.length
\* (NULL before the catalog is fetched), the messages sent to the queue so
\* far, (history) how startRun ended (res) and how a failRun call ended, and
\* the outcome of the invocation (out)
IdleCaller ==
    [pc |-> "idle", job |-> "none", now |-> NULL, runId |-> NULL,
     started |-> NULL, res |-> "none", movies |-> NULL, sent |-> 0,
     failRun |-> "none", out |-> "none"]

InFlight(job) == {d \in Callers : caller[d].pc = "selected" /\ caller[d].job = job}

\* a handler that treats every startRun error as a failure
AfterStartRunError_Rethrow(res) == "threw"

\* catch (e) { if (e.message.includes('already running')) return { status:
\* 'skipped', ... }; throw e; } with runId still null in the outer catch
AfterStartRunError(res) == IF res = "already_running" THEN "skipped" ELSE "threw"

\* a catch block in startRun that reports every error as 'already running'
StartRunCatch_AllBusy(message) == "already_running"

\* startRun, lines 38-47: an error whose message includes 'UNIQUE constraint'
\* or 'already running' is rethrown as 'already running', any other as it is
StartRunCatch(message) ==
    IF message \in {"UNIQUE constraint failed", "is already running"}
    THEN "already_running" ELSE "storage_error"

\* startRun threw: the invocation ends without having acquired the lock
StartRunFailed(c, res) ==
    [caller[c] EXCEPT !.pc = "ended", !.now = NULL, !.res = res,
                      !.out = AfterStartRunError(res)]

\* invocations are numbered in the order in which they call startRun
Triggered(c) == \A d \in Callers : d < c => caller[d].pc # "idle"

\* startRun, lines 17-29: const now = Date.now(); SELECT; throw if active
StartRunSelect(c, job) ==
    /\ caller[c].pc = "idle"
    /\ Triggered(c)
    /\ IF SelectActive(cron_runs, job)
       THEN \* thrown 'is already running', caught at line 38, rethrown at 42
            /\ caller' = [caller EXCEPT ![c] =
                    [StartRunFailed(c, StartRunCatch("is already running")) EXCEPT !.job = job]]
            /\ UNCHANGED <<cconc, cothers, creleased>>
       ELSE /\ caller' = [caller EXCEPT ![c] =
                    [@ EXCEPT !.pc = "selected", !.job = job, !.now = now]]
            /\ cconc' = [d \in Callers |->
                    IF d = c THEN InFlight(job) \ {c}
                    ELSE IF d \in InFlight(job) THEN cconc[d] \cup {c}
                    ELSE cconc[d]]
            /\ UNCHANGED <<cothers, creleased>>
    /\ UNCHANGED <<now, cron_runs>>
    /\ CronOnly

\* startRun whose catch block does not recognise 'UNIQUE constraint': the
\* storage error is rethrown as it is (line 46)
StartRunInsert_Rethrow(c) ==
    /\ caller[c].pc = "selected"
    /\ LET rows == Append(cron_runs, NewRunRow(caller[c].job, caller[c].now)) IN
       IF CronRunsUniqueOk(rows)
       THEN /\ cron_runs' = rows
            /\ caller' = [caller EXCEPT ![c] =
                    [@ EXCEPT !.pc = "holding", !.now = NULL, !.runId = Len(rows),
                              !.res = "ok"]]
            /\ cothers' = [d \in Callers |->
                    IF d # c /\ d \in InFlight(caller[c].job)
                    THEN cothers[d] \cup {c} ELSE cothers[d]]
       ELSE /\ caller' = [caller EXCEPT ![c] = StartRunFailed(c, "storage_error")]
            /\ UNCHANGED <<cron_runs, cothers>>
    /\ UNCHANGED <<now, cconc, creleased>>
    /\ CronOnly

\* startRun, lines 32-47: INSERT; UNIQUE constraint failure -> 'already running'
StartRunInsert(c) ==
    /\ caller[c].pc = "selected"
    /\ LET rows == Append(cron_runs, NewRunRow(caller[c].job, caller[c].now)) IN
       IF CronRunsUniqueOk(rows)
       THEN /\ cron_runs' = rows
            /\ caller' = [caller EXCEPT ![c] =
                    [@ EXCEPT !.pc = "holding", !.now = NULL, !.runId = Len(rows),
                              !.res = "ok"]]
            /\ cothers' = [d \in Callers |->
                    IF d # c /\ d \in InFlight(caller[c].job)
                    THEN cothers[d] \cup {c} ELSE cothers[d]]
       ELSE /\ caller' = [caller EXCEPT ![c] = StartRunFailed(c, StartRunCatch("UNIQUE constraint failed"))]
            /\ UNCHANGED <<cron_runs, cothers>>
    /\ UNCHANGED <<now, cconc, creleased>>
    /\ CronOnly

\* startRun, lines 21-35: the SELECT or the INSERT rejects for another reason
\* than the uniqueness constraint (D1 unavailable)
StartRunThrows(c) ==
    /\ caller[c].pc \in {"idle", "selected"}
    /\ caller[c].pc = "idle" => Triggered(c)
    /\ caller' = [caller EXCEPT ![c] =
            [StartRunFailed(c, StartRunCatch("D1_ERROR")) EXCEPT
                !.job = IF caller[c].pc = "idle" THEN "movie_roast" ELSE @]]
    /\ UNCHANGED <<now, cron_runs, cconc, cothers, creleased>>
    /\ CronOnly

\* movies.length after the merge of now-playing and popular: more than one
\* sendBatch chunk
MovieCounts == {150}

\* Cloudflare Queues limits sendBatch to 100 messages per call
QUEUE_BATCH_SIZE == 100

\* steps 1-3: handleNowPlaying, handlePopularMovies, merge and deduplicate
FetchCatalog(c, n) ==
    /\ caller[c].pc = "holding"
    /\ caller' = [caller EXCEPT ![c] = [@ EXCEPT !.pc = "enqueue", !.movies = n]]
    /\ UNCHANGED <<now, cron_runs, cconc, cothers, creleased>>
    /\ CronOnly

\* a handler that goes on to the tracking update whatever the loop has sent
EnqueueDone_Always(c) == TRUE

\* for (let i = 0; i < movies.length; i += QUEUE_BATCH_SIZE): the loop is over
EnqueueDone(c) == caller[c].sent >= caller[c].movies

\* chunk = movies.slice(i, i + QUEUE_BATCH_SIZE)
ChunkLength(c) ==
    IF caller[c].movies - caller[c].sent < QUEUE_BATCH_SIZE
    THEN caller[c].movies - caller[c].sent ELSE QUEUE_BATCH_SIZE

\* step 4, one iteration: await env.MOVIE_QUEUE.sendBatch(chunk)
SendBatch(c) ==
    /\ caller[c].pc = "enqueue"
    /\ ~EnqueueDone(c)
    /\ caller' = [caller EXCEPT ![c] = [@ EXCEPT !.sent = @ + ChunkLength(c)]]
    /\ UNCHANGED <<now, cron_runs, cconc, cothers, creleased>>
    /\ CronOnly

\* updateProgress(runId, titles, movies.length):
\* UPDATE cron_runs SET movies_roasted_count = ? WHERE id = ?
UpdateProgress(c) ==
    /\ caller[c].pc = "enqueue"
    /\ EnqueueDone(c)
    /\ cron_runs' = [cron_runs EXCEPT
            ![caller[c].runId].movies_roasted_count = caller[c].movies]
    /\ caller' = [caller EXCEPT ![c] = [@ EXCEPT !.pc = "progressed"]]
    /\ UNCHANGED <<now, cconc, cothers, creleased>>
    /\ CronOnly

\* completeRun, lines 66-68: SELECT started_at FROM cron_runs WHERE id = ?
CompleteRunSelect(c) ==
    /\ caller[c].pc = "progressed"
    /\ caller' = [caller EXCEPT ![c] =
            [@ EXCEPT !.pc = "completing",
                      !.started = cron_runs[caller[c].runId].started_at]]
    /\ UNCHANGED <<now, cron_runs, cconc, cothers, creleased>>
    /\ CronOnly

\* the invocation returns or throws: its locals are gone; what stays is the
\* run id, (history) how startRun and failRun ended, and the outcome
Returned(c, failRun, out) ==
    [caller[c] EXCEPT !.pc = "ended", !.started = NULL, !.movies = NULL, !.sent = 0,
                      !.failRun = failRun, !.out = out]

\* a catch block that rethrows without calling failRun
Catch_Rethrow(c) == Returned(c, "none", "threw")

\* catch (error) { ...; if (runId) await tracker.failRun(runId, error); ... }
Catch(c) == [caller[c] EXCEPT !.pc = "caught", !.started = NULL]

\* an awaited step between startRun and the return rejects without effect: the
\* catalog fetch, a sendBatch, updateProgress, or a statement of completeRun
StepThrows(c) ==
    /\ caller[c].pc \in {"holding", "enqueue", "progressed", "completing"}
    /\ caller' = [caller EXCEPT ![c] = Catch(c)]
    /\ UNCHANGED <<now, cron_runs, cconc, cothers, creleased>>
    /\ CronOnly

\* failRun, lines 87-89: SELECT started_at FROM cron_runs WHERE id = ?
FailRunSelect(c) ==
    /\ caller[c].pc = "caught"
    /\ caller' = [caller EXCEPT ![c] =
            [@ EXCEPT !.pc = "failing",
                      !.started = cron_runs[caller[c].runId].started_at]]
    /\ UNCHANGED <<now, cron_runs, cconc, cothers, creleased>>
    /\ CronOnly

\* a duration left null
Duration_Null(startedAt) == NULL

\* const duration = run ? now - run.started_at : null
Duration(startedAt) == IF startedAt = NULL THEN NULL ELSE now - startedAt

\* history: a running row of the job left 'running' while d was inside startRun
NoteReleased(id) ==
    creleased' = [d \in Callers |->
        IF /\ cron_runs[id].status = "running"
           /\ d \in InFlight(cron_runs[id].job_name)
        THEN TRUE ELSE creleased[d]]

\* completeRun, lines 70-77: UPDATE ... SET finished_at, duration_ms, status =
\* 'success' WHERE id = ?. The statement is applied; its reply reaches the
\* Worker (completeRun returns, logResponse, return cronResult) or is lost and
\* the await rejects (the catch block runs).
CompleteRunUpdate(c, replied) ==
    /\ caller[c].pc = "completing"
    /\ cron_runs' = [cron_runs EXCEPT ![caller[c].runId] =
            [@ EXCEPT !.finished_at = now, !.duration_ms = Duration(caller[c].started),
                      !.status = "success"]]
    /\ caller' = [caller EXCEPT ![c] =
            IF replied
            THEN Returned(c, "none", "success")
            ELSE Catch(c)]
    /\ NoteReleased(caller[c].runId)
    /\ UNCHANGED <<now, cconc, cothers>>
    /\ CronOnly

\* failRun, lines 91-98: UPDATE ... SET finished_at, duration_ms, status =
\* 'failed', error WHERE id = ?; then logResponse(500) and throw error
FailRunUpdate(c) ==
    /\ caller[c].pc = "failing"
    /\ cron_runs' = [cron_runs EXCEPT ![caller[c].runId] =
            [@ EXCEPT !.finished_at = now, !.duration_ms = Duration(caller[c].started),
                      !.status = "failed", !.error = "error"]]
    /\ caller' = [caller EXCEPT ![c] = Returned(c, "done", "threw")]
    /\ NoteReleased(caller[c].runId)
    /\ UNCHANGED <<now, cconc, cothers>>
    /\ CronOnly

\* a statement of failRun rejects: the rejection leaves the catch block and
\* the invocation throws it
FailRunThrows(c) ==
    /\ caller[c].pc \in {"caught", "failing"}
    /\ caller' = [caller EXCEPT ![c] = Returned(c, "threw", "threw")]
    /\ UNCHANGED <<now, cron_runs, cconc, cothers, creleased>>
    /\ CronOnly

\* a platform that marks the run failed when its invocation dies
RowsAfterCrash_Reaped(c) ==
    [cron_runs EXCEPT ![caller[c].runId].status = "failed",
                      ![caller[c].runId].finished_at = now,
                      ![caller[c].runId].duration_ms =
                            now - cron_runs[caller[c].runId].started_at]

\* cron_runs when an invocation dies: nothing of the program runs any more
RowsAfterCrash(c) == cron_runs

\* the Worker invocation dies (CPU or wall-time limit, eviction) while it holds
\* the lock: neither the catch block nor the finally block runs
Crash(c) ==
    /\ caller[c].pc \in {"holding", "enqueue", "progressed", "completing",
                         "caught", "failing"}
    /\ cron_runs[caller[c].runId].status = "running"
    /\ cron_runs' = RowsAfterCrash(c)
    /\ caller' = [caller EXCEPT ![c] =
            [Returned(c, caller[c].failRun, "crashed") EXCEPT !.pc = "crashed"]]
    /\ UNCHANGED <<now, cconc, cothers, creleased>>
    /\ CronOnly

CronInit ==
    /\ cron_runs = <<>>
    /\ caller = [c \in Callers |-> IdleCaller]
    /\ cconc = [c \in Callers |-> {}]
    /\ cothers = [c \in Callers |-> {}]
    /\ creleased = [c \in Callers |-> FALSE]

\* ================================================================== roasts
Writers == 1..NumWriters
RoastMovies == {7, 99}
\* every caller passes the default language
Languages == {"en"}
\* what the generation provider returned
GeneratedRoasts ==
    {JObj(<< <<"headline", JStr("burn A")>> >>), JObj(<< <<"headline", JStr("burn B")>> >>)}

ActiveRows(rows, movie, lang) ==
    {i \in 1..Len(rows) :
        rows[i].movie_id = movie /\ rows[i].language = lang /\ rows[i].is_active = 1}

RoastRows(rows, movie, lang) ==
    {i \in 1..Len(rows) : rows[i].movie_id = movie /\ rows[i].language = lang}

\* CREATE INDEX (not UNIQUE) ON roasts(movie_id, language) WHERE is_active = 1
UniqActiveRoastOk_NotUnique(rows) == TRUE

\* CREATE UNIQUE INDEX uniq_active_roast ON roasts(movie_id, language) WHERE is_active = 1
UniqActiveRoastOk(rows) ==
    \A m \in RoastMovies, l \in Languages : Cardinality(ActiveRows(rows, m, l)) <= 1

\* a deactivation that also blanks the roast of the rows it deactivates
DeactivatedRows_Overwrite(rows, movie, lang) ==
    [i \in 1..Len(rows) |->
        IF i \in ActiveRows(rows, movie, lang)
        THEN [rows[i] EXCEPT !.is_active = 0, !.roast_json = Stringify(JNull)]
        ELSE rows[i]]

\* UPDATE roasts SET is_active = 0 WHERE movie_id = ? AND language = ? AND is_active = 1
DeactivatedRows(rows, movie, lang) ==
    [i \in 1..Len(rows) |->
        IF i \in ActiveRows(rows, movie, lang)
        THEN [rows[i] EXCEPT !.is_active = 0] ELSE rows[i]]

\* INSERT INTO roasts (movie_id, roast_json, language, created_at, is_featured, is_active)
\* VALUES (?, ?, ?, ?, 0, 1)
NewRoastRow(movie, lang, roast) ==
    [movie_id |-> movie, language |-> lang, roast_json |-> Stringify(roast),
     is_featured |-> 0, is_active |-> 1]

\* before: (history) the rows of the pair that were active when the call began
IdleWriter ==
    [pc |-> "idle", movie |-> NULL, language |-> "none", roast |-> JNull, id |-> NULL,
     before |-> {}]

\* upsertRoast, line 373: await deactivateOldRoasts(env, movieId, language)
UpsertRoastDeactivate(w, movie, lang, roast) ==
    /\ writer[w].pc = "idle"
    /\ roasts' = DeactivatedRows(roasts, movie, lang)
    /\ writer' = [writer EXCEPT ![w] =
            [@ EXCEPT !.pc = "deactivated", !.movie = movie, !.language = lang,
                      !.roast = roast, !.before = ActiveRows(roasts, movie, lang)]]
    /\ UNCHANGED lastRead
    /\ RoastOnly

\* upsertRoast, lines 376-384: INSERT the new active row, return last_row_id;
\* an INSERT that uniq_active_roast rejects throws
UpsertRoastInsert(w) ==
    /\ writer[w].pc = "deactivated"
    /\ LET rows == Append(roasts,
                          NewRoastRow(writer[w].movie, writer[w].language, writer[w].roast)) IN
       IF UniqActiveRoastOk(rows)
       THEN /\ roasts' = rows
            /\ writer' = [writer EXCEPT ![w] = [@ EXCEPT !.pc = "returned", !.id = Len(rows)]]
       ELSE /\ writer' = [writer EXCEPT ![w] = [@ EXCEPT !.pc = "threw"]]
            /\ UNCHANGED roasts
    /\ UNCHANGED lastRead
    /\ RoastOnly

\* upsertRoast, lines 376-382: the INSERT fails (a D1 error) and upsertRoast
\* throws; the UPDATE of deactivateOldRoasts is a statement of its own and stays
UpsertRoastInsertThrows(w) ==
    /\ writer[w].pc = "deactivated"
    /\ writer' = [writer EXCEPT ![w] = [@ EXCEPT !.pc = "threw"]]
    /\ UNCHANGED <<roasts, lastRead>>
    /\ RoastOnly

\* a toggle that rewrites the roast of the row as well
FeaturedToggled_Rewrite(row) ==
    [row EXCEPT !.is_featured = IF @ = 1 THEN 0 ELSE 1, !.roast_json = Stringify(JNull)]

\* SET is_featured = CASE WHEN is_featured = 1 THEN 0 ELSE 1 END
FeaturedToggled(row) == [row EXCEPT !.is_featured = IF @ = 1 THEN 0 ELSE 1]

\* toggleRoastFeatured(env, roastId): UPDATE roasts ... WHERE id = ?
ToggleRoastFeatured(id) ==
    /\ id \in 1..Len(roasts)
    /\ roasts' = [roasts EXCEPT ![id] = FeaturedToggled(@)]
    /\ UNCHANGED <<writer, lastRead>>
    /\ RoastOnly

\* getActiveRoast: SELECT ... WHERE movie_id = ? AND language = ? AND is_active = 1, first()
GetActiveRoast(movie, lang) ==
    /\ \E found \in (IF ActiveRows(roasts, movie, lang) = {} THEN {NULL}
                     ELSE ActiveRows(roasts, movie, lang)) :
            lastRead' = [movie |-> movie, language |-> lang, id |-> found,
                         hadRoast |-> RoastRows(roasts, movie, lang) # {}]
    /\ lastRead' # lastRead
    /\ UNCHANGED <<roasts, writer>>
    /\ RoastOnly

\* the ids the roasts table can hold: one row per upsertRoast call
RoastIds == 1..NumWriters

RoastInit ==
    /\ roasts = <<>>
    /\ writer = [w \in Writers |-> IdleWriter]
    /\ lastRead = [movie |-> NULL, language |-> "none", id |-> NULL, hadRoast |-> FALSE]

\* ===================================================== extraction pipeline
\* ---- JavaScript semantics of the validity checks
Undefined == [t |-> "undefined"]

\* value.key
Get(v, key) ==
    IF v.t = "obj" /\ \E i \in 1..Len(v.fields) : v.fields[i][1] = key
    THEN v.fields[CHOOSE i \in 1..Len(v.fields) : v.fields[i][1] = key][2]
    ELSE Undefined

\* the value as a condition
Truthy(v) ==
    CASE v.t = "null" -> FALSE
      [] v.t = "undefined" -> FALSE
      [] v.t = "str" -> v.s # ""
      [] OTHER -> TRUE

\* value?.length > 0
LengthPositive(v) ==
    CASE v.t = "arr" -> Len(v.items) > 0
      [] v.t = "str" -> v.s # ""
      [] OTHER -> FALSE

\* ---- what the providers can return
\* Brave: ExtractedMovieData {results, faq, infobox} and the result urls
EvEmpty == JObj(<< <<"results", JArr(<<>>)>>, <<"faq", JArr(<<>>)>> >>)
EvResults ==
    JObj(<< <<"results", JArr(<<JObj(<< <<"title", JStr("review")>> >>)>>)>>,
            <<"faq", JArr(<<>>)>> >>)
EvFaq ==
    JObj(<< <<"results", JArr(<<>>)>>,
            <<"faq", JArr(<<JObj(<< <<"question", JStr("plot?")>> >>)>>)>> >>)
EvInfobox ==
    JObj(<< <<"results", JArr(<<>>)>>, <<"faq", JArr(<<>>)>>,
            <<"infobox", JObj(<< <<"type", JStr("movie")>> >>)>> >>)
NoCitations == JArr(<<>>)
OneCitation == JArr(<<JStr("https://example.com/review")>>)
BraveResponses ==
    {[data |-> EvEmpty, citations |-> NoCitations],
     [data |-> EvResults, citations |-> OneCitation],
     [data |-> EvFaq, citations |-> NoCitations],
     [data |-> EvInfobox, citations |-> NoCitations]}

\* Grok: the parsed message content ('{}' when the message has none)
CEmpty == JObj(<<>>)
CTitle == JObj(<< <<"title", JStr("Dune")>> >>)
CPlot == JObj(<< <<"plot", JObj(<< <<"summary", JStr("sand")>> >>)>> >>)
CReception == JObj(<< <<"reception", JObj(<< <<"split", JStr("none")>> >>)>> >>)
CRatingsOnly == JObj(<< <<"ratings", JArr(<<>>)>> >>)
GrokExtractions == {JNull, CEmpty, CTitle, CPlot, CReception, CRatingsOnly}
GrokUsage == [prompt_tokens |-> 3, completion_tokens |-> 4, total_tokens |-> 7]

\* ---- JSON.parse, on the texts JSON.stringify writes to the store
JsonValues ==
    {r.data : r \in BraveResponses} \cup {NoCitations, OneCitation} \cup GrokExtractions
ParseError == [t |-> "SyntaxError"]
Parse(text) ==
    IF \E v \in JsonValues : Stringify(v) = text
    THEN CHOOSE v \in JsonValues : Stringify(v) = text
    ELSE ParseError

\* ---- the store
Invokers == 1..NumInvokers
TruthMovies == {42}

MovieExtractions(rows, movie) == {i \in 1..Len(rows) : rows[i].movie_id = movie}

\* getLatestExtraction: SELECT ... WHERE movie_id = ? ORDER BY fetched_at DESC LIMIT 1;
\* the rows it may return (SQL leaves the order of equal fetched_at open), NULL for none
LatestExtractions(rows, movie) ==
    IF MovieExtractions(rows, movie) = {} THEN {NULL}
    ELSE {i \in MovieExtractions(rows, movie) :
            \A k \in MovieExtractions(rows, movie) : rows[k].fetched_at <= rows[i].fetched_at}

\* hasValidEvidence that accepts search results only
HasValidEvidence_ResultsOnly(rows, id) ==
    IF id = NULL THEN FALSE
    ELSE IF rows[id].evidence_json = <<>> THEN FALSE
    ELSE LET parsed == Parse(rows[id].evidence_json) IN
         IF parsed = ParseError THEN FALSE
         ELSE Truthy(parsed) /\ LengthPositive(Get(parsed, "results"))

\* hasValidEvidence(dbExtraction)
HasValidEvidence(rows, id) ==
    IF id = NULL THEN FALSE
    ELSE IF rows[id].evidence_json = <<>> THEN FALSE
    ELSE LET parsed == Parse(rows[id].evidence_json) IN
         IF parsed = ParseError THEN FALSE
         ELSE /\ Truthy(parsed)
              /\ \/ LengthPositive(Get(parsed, "results"))
                 \/ LengthPositive(Get(parsed, "faq"))
                 \/ Truthy(Get(parsed, "infobox"))

\* hasValidContent that only tests content_json for presence (as handleMovieTruth does)
HasValidContent_NonNull(rows, id) ==
    id # NULL /\ rows[id].content_json # <<>>

\* hasValidContent(dbExtraction)
HasValidContent(rows, id) ==
    IF id = NULL THEN FALSE
    ELSE IF rows[id].content_json = <<>> THEN FALSE
    ELSE LET parsed == Parse(rows[id].content_json) IN
         IF parsed = ParseError THEN FALSE
         ELSE /\ Truthy(parsed)
              /\ \/ Truthy(Get(parsed, "title"))
                 \/ Truthy(Get(parsed, "plot"))
                 \/ Truthy(Get(parsed, "reception"))

\* column || 0
OrZero(x) == IF x = NULL THEN 0 ELSE x

\* new Date(ms).toISOString(): the seconds and the milliseconds of the instant
ToISOString(ms) == <<ms \div MsPerSec, ms % MsPerSec>>

\* citations_json ? JSON.parse(citations_json) : []
ParseCitations(text) == IF text = <<>> THEN NoCitations ELSE Parse(text)

\* buildMovieTruthFromExtraction(dbExtraction)
BuildMovieTruthFromExtraction(row) ==
    [source |-> row.source,
     fetchedAt |-> ToISOString(row.fetched_at * MsPerSec),
     model |-> row.model,
     costEstimateINR |-> 0,
     citations |-> ParseCitations(row.citations_json),
     content |-> row.content_json,
     usage |-> [prompt_tokens |-> OrZero(row.prompt_tokens),
                completion_tokens |-> OrZero(row.completion_tokens),
                total_tokens |-> OrZero(row.total_tokens),
                total_cost |-> OrZero(row.total_cost)]]

NoTruth == [source |-> "none"]
NoUsage == [prompt_tokens |-> 0, completion_tokens |-> 0, total_tokens |-> 0, total_cost |-> 0]

IdleInvoker ==
    [pc |-> "idle", movie |-> NULL, rec |-> NULL,
     hasEvidence |-> FALSE, hasContent |-> FALSE,
     evidence |-> JNull, citations |-> NoCitations, extraction |-> JNull, usage |-> NoUsage,
     evidenceCalls |-> 0, extractionCalls |-> 0, kvPuts |-> 0, inserts |-> 0,
     insertedId |-> NULL,
     served |-> "none", cached |-> "none", truth |-> NoTruth]

\* the locals of a finished invocation are dead (the count of SEARCH_KV writes
\* is history kept for the invocations that threw)
Finished(r, pc) ==
    [r EXCEPT !.pc = pc, !.evidence = JNull, !.citations = NoCitations,
              !.extraction = JNull, !.usage = NoUsage,
              !.kvPuts = IF pc = "threw" THEN r.kvPuts ELSE 0]

\* ---- SEARCH_KV
NoSearch == [data |-> <<>>, citations |-> <<>>]

\* ---- handleMovieTruth
\* dbExtraction && dbExtraction.content_json
HasStoredContent(rows, id) == id # NULL /\ rows[id].content_json # <<>>

\* invocations are numbered in the order in which they arrive
Arrives(i) == inv[i].pc = "idle" /\ \A k \in Invokers : k < i => inv[k].pc # "idle"

\* handleMovieTruth up to getOrCreateTruth: read the latest record and serve it, or
\* fetch the movie details (which may throw) and go on
HandleMovieTruth(i, movie, detailsOk) ==
    /\ Arrives(i)
    /\ \E id \in LatestExtractions(extractions, movie) :
         inv' = [inv EXCEPT ![i] =
                   IF HasStoredContent(extractions, id)
                   THEN [@ EXCEPT !.pc = "responded", !.movie = movie, !.rec = id, !.served = "stored",
                                  !.cached = "true",
                                  !.truth = BuildMovieTruthFromExtraction(extractions[id])]
                   ELSE [@ EXCEPT !.pc = IF detailsOk THEN "truth" ELSE "threw",
                                  !.movie = movie]]
    /\ UNCHANGED <<now, extractions, searchKV>>
    /\ TruthOnly

\* handleMovieRoast, step 5: calls getOrCreateTruth whatever the store holds
HandleMovieRoastTruth(i, movie) ==
    /\ Arrives(i)
    /\ inv' = [inv EXCEPT ![i].pc = "truth", ![i].movie = movie]
    /\ UNCHANGED <<now, extractions, searchKV>>
    /\ TruthOnly

\* ---- getOrCreateTruth
\* hasEvidence && hasContent && dbExtraction
IsCacheHit(hasEvidence, hasContent, id) == hasEvidence /\ hasContent /\ id # NULL

\* getOrCreateTruth that never reuses the stored evidence
UseCachedEvidence_Never(hasEvidence, id) == FALSE

\* hasEvidence && dbExtraction
UseCachedEvidence(hasEvidence, id) == hasEvidence /\ id # NULL

\* getOrCreateTruth that never reuses the stored content
UseCachedContent_Never(hasContent, id) == FALSE

\* hasContent && dbExtraction
UseCachedContent(hasContent, id) == hasContent /\ id # NULL

\* getOrCreateTruth that stores only when both parts were missing
ShouldStore_BothMissing(hasEvidence, hasContent) == ~hasEvidence /\ ~hasContent

\* !hasEvidence || !hasContent
ShouldStore(hasEvidence, hasContent) == ~hasEvidence \/ ~hasContent

\* step 4 up to its await: the stored content is reused, or Grok is to be called
AfterEvidence(r) ==
    IF UseCachedContent(r.hasContent, r.rec)
    THEN [r EXCEPT !.pc = "store",
                   !.extraction = Parse(extractions[r.rec].content_json),
                   !.usage = [prompt_tokens |-> OrZero(extractions[r.rec].prompt_tokens),
                              completion_tokens |-> OrZero(extractions[r.rec].completion_tokens),
                              total_tokens |-> OrZero(extractions[r.rec].total_tokens),
                              total_cost |-> OrZero(extractions[r.rec].total_cost)]]
    ELSE [r EXCEPT !.pc = "extract"]

\* steps 1-3: the single read, the cache hit, the reuse of stored evidence
GetOrCreateTruthRead(i) ==
    /\ inv[i].pc = "truth"
    /\ \E id \in LatestExtractions(extractions, inv[i].movie) :
         LET hasEvidence == HasValidEvidence(extractions, id)
             hasContent == HasValidContent(extractions, id)
             r == [inv[i] EXCEPT !.rec = id, !.hasEvidence = hasEvidence,
                                 !.hasContent = hasContent]
         IN inv' = [inv EXCEPT ![i] =
                 IF IsCacheHit(hasEvidence, hasContent, id)
                 THEN [r EXCEPT !.pc = "responded", !.served = "stored",
                                !.cached = "false",
                                !.truth = BuildMovieTruthFromExtraction(extractions[id])]
                 ELSE IF UseCachedEvidence(hasEvidence, id)
                 THEN AfterEvidence([r EXCEPT
                          !.evidence = Parse(extractions[id].evidence_json),
                          !.citations = ParseCitations(extractions[id].citations_json)])
                 ELSE [r EXCEPT !.pc = "search"]]
    /\ UNCHANGED <<now, extractions, searchKV>>
    /\ TruthOnly

\* fetchBraveSearch finds the search result in SEARCH_KV and returns it
FetchBraveSearchCached(i) ==
    /\ inv[i].pc = "search"
    /\ searchKV[inv[i].movie] # NoSearch
    /\ inv' = [inv EXCEPT ![i] =
                 AfterEvidence([@ EXCEPT
                     !.evidenceCalls = @ + 1,
                     !.evidence = Parse(searchKV[inv[i].movie].data),
                     !.citations = Parse(searchKV[inv[i].movie].citations)])]
    /\ UNCHANGED <<now, extractions, searchKV>>
    /\ TruthOnly

\* fetchBraveSearch finds nothing in SEARCH_KV, the Brave API answers, and the
\* result is put into SEARCH_KV
FetchBraveSearchApi(i, resp) ==
    /\ inv[i].pc = "search"
    /\ searchKV[inv[i].movie] = NoSearch
    /\ inv' = [inv EXCEPT ![i] =
                 AfterEvidence([@ EXCEPT !.evidenceCalls = @ + 1,
                                         !.kvPuts = @ + 1,
                                         !.evidence = resp.data,
                                         !.citations = resp.citations])]
    /\ searchKV' = [searchKV EXCEPT ![inv[i].movie] =
                      [data |-> Stringify(resp.data),
                       citations |-> Stringify(resp.citations)]]
    /\ UNCHANGED <<now, extractions>>
    /\ TruthOnly

\* fetchBraveSearch finds nothing in SEARCH_KV, the Brave API answers with an error
\* status, and the call throws
FetchBraveSearchFails(i) ==
    /\ inv[i].pc = "search"
    /\ searchKV[inv[i].movie] = NoSearch
    /\ inv' = [inv EXCEPT ![i] = Finished([@ EXCEPT !.evidenceCalls = @ + 1], "threw")]
    /\ UNCHANGED <<now, extractions, searchKV>>
    /\ TruthOnly

\* extractWithGrok returns the parsed message and the token counts
ExtractWithGrok(i, extraction) ==
    /\ inv[i].pc = "extract"
    /\ inv' = [inv EXCEPT ![i].pc = "store",
                          ![i].extractionCalls = @ + 1,
                          ![i].extraction = extraction,
                          ![i].usage = [prompt_tokens |-> OrZero(GrokUsage.prompt_tokens),
                                        completion_tokens |-> OrZero(GrokUsage.completion_tokens),
                                        total_tokens |-> OrZero(GrokUsage.total_tokens),
                                        total_cost |-> 0]]
    /\ UNCHANGED <<now, extractions, searchKV>>
    /\ TruthOnly

\* insertExtraction: the row written at the instant ms
ExtractionRow(movie, r, ms) ==
    [movie_id |-> movie,
     source |-> "grok-extraction",
     model |-> "grok-4-1-fast-non-reasoning",
     fetched_at |-> ms \div MsPerSec,
     content_json |-> Stringify(r.extraction),
     evidence_json |-> Stringify(r.evidence),
     citations_json |-> Stringify(r.citations),
     prompt_tokens |-> r.usage.prompt_tokens,
     completion_tokens |-> r.usage.completion_tokens,
     total_tokens |-> r.usage.total_tokens,
     total_cost |-> r.usage.total_cost]

\* a pipeline that stores the evidence it holds when the extraction fails
ExtractWithGrokFails_StoresEvidence(i) ==
    /\ inv[i].pc = "extract"
    /\ extractions' = Append(extractions, ExtractionRow(inv[i].movie, inv[i], now))
    /\ inv' = [inv EXCEPT ![i] = Finished([@ EXCEPT !.extractionCalls = @ + 1], "threw")]
    /\ UNCHANGED <<now, searchKV>>
    /\ TruthOnly

\* extractWithGrok: an error status or a message that is not JSON, rethrown
ExtractWithGrokFails(i) ==
    /\ inv[i].pc = "extract"
    /\ inv' = [inv EXCEPT ![i] = Finished([@ EXCEPT !.extractionCalls = @ + 1], "threw")]
    /\ UNCHANGED <<now, extractions, searchKV>>
    /\ TruthOnly

\* the clock is read here: the time that has passed since it was last read
Elapse ==
    \E k \in 0..MaxTicks :
        /\ now + k * TickMs <= MaxTicks * TickMs
        /\ now' = now + k * TickMs

\* insertExtraction(env, movieId, extraction): the row it writes
NewExtractionRow(movie, r) == ExtractionRow(movie, r, now')

\* step 6: the MovieTruth built from what this invocation holds
FreshTruth(r) ==
    [source |-> "grok-extraction",
     fetchedAt |-> ToISOString(now'),
     model |-> "grok-4-1-fast-non-reasoning",
     costEstimateINR |-> 0,
     citations |-> r.citations,
     content |-> StringifyPretty(r.extraction),
     usage |-> [prompt_tokens |-> r.usage.prompt_tokens,
                completion_tokens |-> r.usage.completion_tokens,
                total_tokens |-> r.usage.total_tokens,
                tool_calls |-> 0,
                total_cost |-> r.usage.total_cost]]

\* steps 5-6: store the record if anything was fetched, and return the MovieTruth
StoreAndReturn(i) ==
    /\ inv[i].pc = "store"
    /\ Elapse
    /\ LET store == ShouldStore(inv[i].hasEvidence, inv[i].hasContent) IN
       /\ extractions' = IF store
                         THEN Append(extractions, NewExtractionRow(inv[i].movie, inv[i]))
                         ELSE extractions
       /\ inv' = [inv EXCEPT ![i] =
                    Finished([@ EXCEPT !.inserts = IF store THEN @ + 1 ELSE @,
                                       !.insertedId = IF store THEN Len(extractions) + 1 ELSE @,
                                       !.served = "fresh",
                                       !.cached = "false",
                                       !.truth = FreshTruth(inv[i])],
                             "responded")]
    /\ UNCHANGED searchKV
    /\ TruthOnly

TruthInit ==
    /\ extractions = <<>>
    /\ searchKV = [m \in TruthMovies |-> NoSearch]
    /\ inv = [i \in Invokers |-> IdleInvoker]

\* the provider answers and the movie used where both tables are written
StoreBraveResponses == {r \in BraveResponses : r.data = EvResults}
StoreGrokExtractions == {CEmpty, CTitle}
StoreRoastMovies == {7}

\* two handleMovieRoast calls at a time: their pipeline invocations and their
\* upsertRoast calls
StoreInvokers == {1, 2}
StoreWriters == {1, 2}

\* the store after an earlier getOrCreateTruth invocation for movie 42, which
\* got resp from Brave and extraction from Grok, has stored its record in the
\* current second; its search result is still in SEARCH_KV or has expired
TruthStored(resp, extraction) ==
    /\ extractions =
         <<ExtractionRow(42, [evidence |-> resp.data, citations |-> resp.citations,
                              extraction |-> extraction,
                              usage |-> [prompt_tokens |-> OrZero(GrokUsage.prompt_tokens),
                                         completion_tokens |-> OrZero(GrokUsage.completion_tokens),
                                         total_tokens |-> OrZero(GrokUsage.total_tokens),
                                         total_cost |-> 0]], 0)>>
    /\ searchKV \in [TruthMovies -> {NoSearch, [data |-> Stringify(resp.data),
                                                 citations |-> Stringify(resp.citations)]}]
    /\ inv = [i \in Invokers |-> IdleInvoker]

\* ========================================================= queue consumer
\* queues.consumers: max_retries, max_concurrency
MaxRetries == 3
MaxConcurrency == 2

MsgIds == 1..NumMessages
Consumers == 1..MaxConcurrency

\* what the latest delivery of a message did
NoDelivery ==
    [acks |-> 0, retries |-> 0, invoked |-> 0, generated |-> 0, result |-> "none",
     hadRoast |-> FALSE]

NewMessage(movie) ==
    [movieId |-> movie, state |-> "queued", attempts |-> 0, last |-> NoDelivery]

IdleConsumer == [pc |-> "idle", batch |-> <<>>, idx |-> 0]

\* the message the loop is at
Current(q) == cons[q].batch[cons[q].idx]

\* the batches the platform may hand out: at most MaxBatch messages, in queue
\* order
Batches ==
    {b \in UNION {[1..n -> MsgIds] : n \in 1..MaxBatch} :
        \A p, r \in 1..Len(b) : p < r => b[p] < b[r]}

\* [[queues.consumers]] max_batch_size = 1
MaxBatchSize == 1

\* the batches of the documented consumer configuration
ConfiguredBatches == {b \in Batches : Len(b) <= MaxBatchSize}

\* the platform delivers a batch: handleMovieQueueBatch(batch, env) starts
\* (concurrent invocations are numbered in the order in which they are started)
Deliver(q, b) ==
    /\ cons[q].pc = "idle"
    /\ \A r \in Consumers : r < q => cons[r].pc # "idle"
    /\ \A p \in 1..Len(b) : msgs[b[p]].state = "queued"
    /\ cons' = [cons EXCEPT ![q] = [pc |-> "check", batch |-> b, idx |-> 1]]
    /\ msgs' = [k \in MsgIds |->
                  IF \E p \in 1..Len(b) : b[p] = k
                  THEN [msgs[k] EXCEPT !.state = "delivered",
                                       !.attempts = IF @ > MaxRetries THEN @ ELSE @ + 1,
                                       !.last = NoDelivery]
                  ELSE msgs[k]]
    /\ UNCHANGED roasts
    /\ QueueOnly

\* for (const message of batch.messages): the loop after a message was
\* acknowledged (continue, or the end of the try block)
AfterAck(q) ==
    IF cons[q].idx < Len(cons[q].batch)
    THEN [cons[q] EXCEPT !.pc = "check", !.idx = @ + 1]
    ELSE [cons[q] EXCEPT !.pc = "done"]

\* a handler whose catch is around the loop: a failure ends the batch
AfterRetry_Abort(q) == [cons[q] EXCEPT !.pc = "done"]

\* the loop after the catch block of a message
AfterRetry(q) ==
    IF cons[q].idx < Len(cons[q].batch)
    THEN [cons[q] EXCEPT !.pc = "check", !.idx = @ + 1]
    ELSE [cons[q] EXCEPT !.pc = "done"]

\* message.ack()
Acked(m, result) == [m EXCEPT !.last.acks = @ + 1, !.last.result = result]

\* a catch block that only logs
Caught_LogOnly(m, result) == [m EXCEPT !.last.result = result]

\* catch (error) { ...; message.retry() }
Caught(m, result) == [m EXCEPT !.last.retries = @ + 1, !.last.result = result]

\* an existence check that never finds a roast
ExistingRoast_None(rows, movie) == {}

\* SELECT id FROM roasts WHERE movie_id = ? AND is_active = 1
ExistingRoast(rows, movie) ==
    {i \in 1..Len(rows) : rows[i].movie_id = movie /\ rows[i].is_active = 1}

\* the existence check: the roast exists (ack, continue) or handleMovieRoast is called
ExistenceCheck(q) ==
    /\ cons[q].pc = "check"
    /\ LET k == Current(q)
           found == ExistingRoast(roasts, msgs[k].movieId)
           \* (history) the movie had an active roast when the check ran
           had == \E i \in 1..Len(roasts) :
                      roasts[i].movie_id = msgs[k].movieId /\ roasts[i].is_active = 1 IN
       IF found # {}
       THEN /\ msgs' = [msgs EXCEPT ![k] =
                          Acked([@ EXCEPT !.last.hadRoast = had], "existed")]
            /\ cons' = [cons EXCEPT ![q] = AfterAck(q)]
       ELSE /\ msgs' = [msgs EXCEPT ![k].last.invoked = @ + 1,
                                    ![k].last.hadRoast = had]
            /\ cons' = [cons EXCEPT ![q].pc = "getRoast"]
    /\ UNCHANGED roasts
    /\ QueueOnly

\* the existence check throws (a D1 error): caught, message.retry()
ExistenceCheckThrows(q) ==
    /\ cons[q].pc = "check"
    /\ msgs' = [msgs EXCEPT ![Current(q)] = Caught(@, "checkThrew")]
    /\ cons' = [cons EXCEPT ![q] = AfterRetry(q)]
    /\ UNCHANGED roasts
    /\ QueueOnly

\* handleMovieRoast, step 1: getRoast; an active roast is returned as it is
HandleMovieRoastGetRoast(q) ==
    /\ cons[q].pc = "getRoast"
    /\ IF ActiveRows(roasts, msgs[Current(q)].movieId, "en") # {}
       THEN /\ msgs' = [msgs EXCEPT ![Current(q)] = Acked(@, "succeeded")]
            /\ cons' = [cons EXCEPT ![q] = AfterAck(q)]
       ELSE /\ cons' = [cons EXCEPT ![q].pc = "generate"]
            /\ UNCHANGED msgs
    /\ UNCHANGED roasts
    /\ QueueOnly

\* handleMovieRoast, steps 2-5 throw (fetchMovieDetails, upsertMovie,
\* getOrCreateTruth) or getRoast throws: caught by the consumer, message.retry()
HandleMovieRoastThrows(q) ==
    /\ cons[q].pc \in {"getRoast", "generate"}
    /\ msgs' = [msgs EXCEPT ![Current(q)] = Caught(@, "processThrew")]
    /\ cons' = [cons EXCEPT ![q] = AfterRetry(q)]
    /\ UNCHANGED roasts
    /\ QueueOnly

\* handleMovieRoast, step 6: generateRoast calls the generation provider, which
\* answers or fails
GenerateRoast(q, ok) ==
    /\ cons[q].pc = "generate"
    /\ IF ok
       THEN /\ msgs' = [msgs EXCEPT ![Current(q)].last.generated = @ + 1]
            /\ cons' = [cons EXCEPT ![q].pc = "upsert"]
       ELSE /\ msgs' = [msgs EXCEPT ![Current(q)] =
                          Caught([@ EXCEPT !.last.generated = @ + 1], "processThrew")]
            /\ cons' = [cons EXCEPT ![q] = AfterRetry(q)]
    /\ UNCHANGED roasts
    /\ QueueOnly

\* the roast the provider wrote
QueueRoast == JObj(<< <<"headline", JStr("burn A")>> >>)

\* handleMovieRoast, step 8: upsertRoast, deactivateOldRoasts
ConsumerUpsertDeactivate(q) ==
    /\ cons[q].pc = "upsert"
    /\ roasts' = DeactivatedRows(roasts, msgs[Current(q)].movieId, "en")
    /\ cons' = [cons EXCEPT ![q].pc = "insert"]
    /\ UNCHANGED msgs
    /\ QueueOnly

\* handleMovieRoast, step 8: upsertRoast, INSERT; the handler returns and the
\* message is acknowledged, or uniq_active_roast rejects the row and the
\* consumer catches the error
ConsumerUpsertInsert(q) ==
    /\ cons[q].pc = "insert"
    /\ LET k == Current(q)
           rows == Append(roasts, NewRoastRow(msgs[k].movieId, "en", QueueRoast)) IN
       IF UniqActiveRoastOk(rows)
       THEN /\ roasts' = rows
            /\ msgs' = [msgs EXCEPT ![k] = Acked(@, "succeeded")]
            /\ cons' = [cons EXCEPT ![q] = AfterAck(q)]
       ELSE /\ msgs' = [msgs EXCEPT ![k] = Caught(@, "processThrew")]
            /\ cons' = [cons EXCEPT ![q] = AfterRetry(q)]
            /\ UNCHANGED roasts
    /\ QueueOnly

\* handleMovieRoast, step 8: upsertRoast's INSERT fails (a D1 error) after the
\* deactivation; the consumer catches the error, message.retry()
ConsumerUpsertInsertThrows(q) ==
    /\ cons[q].pc = "insert"
    /\ msgs' = [msgs EXCEPT ![Current(q)] = Caught(@, "processThrew")]
    /\ cons' = [cons EXCEPT ![q] = AfterRetry(q)]
    /\ UNCHANGED roasts
    /\ QueueOnly

\* a platform that redelivers a retried message without counting
Settled_NoLimit(m) ==
    IF m.last.acks > 0 THEN "acked" ELSE "queued"

\* what the platform does with a message when the handler has returned:
\* acknowledged messages leave the queue, the others are redelivered, and go to
\* the dead-letter queue after max_retries redeliveries
Settled(m) ==
    IF m.last.acks > 0 THEN "acked"
    ELSE IF m.attempts > MaxRetries THEN "dlq"
    ELSE "queued"

\* handleMovieQueueBatch returns and the platform settles the batch
SettleBatch(q) ==
    /\ cons[q].pc = "done"
    /\ msgs' = [k \in MsgIds |->
                  IF \E p \in 1..Len(cons[q].batch) : cons[q].batch[p] = k
                  THEN [msgs[k] EXCEPT
                          !.state = Settled(msgs[k]),
                          !.last = IF Settled(msgs[k]) = "acked" THEN @ ELSE NoDelivery]
                  ELSE msgs[k]]
    /\ cons' = [cons EXCEPT ![q] = IdleConsumer]
    /\ UNCHANGED roasts
    /\ QueueOnly

\* the messages sendBatch has put on the queue: one per movie of the run, and
\* further ones for the same or another movie from a later run
QueueInit ==
    /\ msgs \in [MsgIds -> {NewMessage(m) : m \in RoastMovies}]
    /\ msgs[1].movieId = 7
    /\ cons = [q \in Consumers |-> IdleConsumer]

QueueIdle ==
    /\ msgs = [k \in MsgIds |-> NewMessage(7)]
    /\ cons = [q \in Consumers |-> IdleConsumer]

\* ------------------------------------------ merge and enqueue of the daily run
\* The movies of a fetched list: id and title, the fields the queue message
\* takes. The title stands for the list's own copy of the entry: the two
\* lists are fetched by separate TMDB calls.
MovieIds == 1..NumMovieIds

Entry(id, list) == [id |-> id, title |-> list]

\* the ids first .. first + count - 1, as one list returns them
Run(first, count, list) == [k \in 1..count |-> Entry(first + k - 1, list)]

ShortLists(list) ==
    UNION {[1..n -> {Entry(id, list) : id \in MovieIds}] : n \in 0..MaxListLen}

\* list lengths around the sendBatch limit
LongCounts == {QUEUE_BATCH_SIZE, QUEUE_BATCH_SIZE + 1, 2 * QUEUE_BATCH_SIZE + 1}

NowPlayingLists ==
    ShortLists("now_playing") \cup {Run(1, n, "now_playing") : n \in LongCounts}

\* a long popular list shares its first half with the now-playing list
PopularLists ==
    ShortLists("popular")
        \cup {Run((QUEUE_BATCH_SIZE \div 2) + 1, n, "popular") : n \in LongCounts}

\* long lists come with a long or an empty list, short lists with short ones
IsLong(list) == Len(list) > MaxListLen
FetchedTogether(nowPlayingMovies, popularMovies) ==
    \/ ~IsLong(nowPlayingMovies) /\ ~IsLong(popularMovies)
    \/ IsLong(nowPlayingMovies) /\ (IsLong(popularMovies) \/ popularMovies = <<>>)
    \/ nowPlayingMovies = <<>> /\ IsLong(popularMovies)

\* Map.prototype.set on a Map kept as the sequence of its values in insertion
\* order: a present key keeps its place and takes the new value
MapSet_KeepFirst(movieMap, movie) ==
    IF \E k \in 1..Len(movieMap) : movieMap[k].id = movie.id
    THEN movieMap
    ELSE Append(movieMap, movie)

MapSet(movieMap, movie) ==
    IF \E k \in 1..Len(movieMap) : movieMap[k].id = movie.id
    THEN [k \in 1..Len(movieMap) |->
            IF movieMap[k].id = movie.id THEN movie ELSE movieMap[k]]
    ELSE Append(movieMap, movie)

\* for (const movie of list) movieMap.set(movie.id, movie), over the entries
\* from .. to of the list: the first half of them, then the second half
RECURSIVE SetAll(_, _, _, _)
SetAll(movieMap, list, from, to) ==
    IF from > to THEN movieMap
    ELSE IF from = to THEN MapSet(movieMap, list[from])
    ELSE LET mid == (from + to) \div 2
             half == SetAll(movieMap, list, from, mid)
         IN  IF Len(half) > 0 THEN SetAll(half, list, mid + 1, to) ELSE half

\* Array.from(movieMap.values()) after both loops
MergeMovies(nowPlayingMovies, popularMovies) ==
    SetAll(SetAll(<<>>, nowPlayingMovies, 1, Len(nowPlayingMovies)),
           popularMovies, 1, Len(popularMovies))

\* movies.slice(i, i + QUEUE_BATCH_SIZE), i counted from 0
Slice(movies, i, end) ==
    [k \in 1..((IF end < Len(movies) THEN end ELSE Len(movies)) - i) |-> movies[i + k]]

\* chunk.map(movie => ({ body: { movieId, title, correlationId } })): the
\* correlation id is the same in every message of a run
MessageBody(movie) == [movieId |-> movie.id, title |-> movie.title]

IdleEnqueue ==
    [pc |-> "idle", nowPlayingMovies |-> <<>>, popularMovies |-> <<>>,
     movies |-> <<>>, i |-> 0, sent |-> <<>>]

EnqueueInit == enq = IdleEnqueue

\* Step 1: handleNowPlaying's response
FetchNowPlayingMovies(list) ==
    /\ enq.pc = "idle"
    /\ enq' = [enq EXCEPT !.pc = "nowPlaying", !.nowPlayingMovies = list]
    /\ EnqueueOnly

\* Step 2: handlePopularMovies' response
FetchPopularMovies(list) ==
    /\ enq.pc = "nowPlaying"
    /\ FetchedTogether(enq.nowPlayingMovies, list)
    /\ enq' = [enq EXCEPT !.pc = "popular", !.popularMovies = list]
    /\ EnqueueOnly

\* Step 3: merge and deduplicate
Merge ==
    /\ enq.pc = "popular"
    /\ enq' = [enq EXCEPT !.pc = "sending",
                          !.movies = MergeMovies(enq.nowPlayingMovies, enq.popularMovies),
                          !.i = 0]
    /\ EnqueueOnly

\* Step 4, one turn of the loop: sendBatch of the next chunk
SendChunk ==
    /\ enq.pc = "sending"
    /\ enq.i < Len(enq.movies)
    /\ LET chunk == Slice(enq.movies, enq.i, enq.i + QUEUE_BATCH_SIZE)
       IN enq' = [enq EXCEPT !.sent = Append(@, [k \in 1..Len(chunk) |-> MessageBody(chunk[k])]),
                             !.i = @ + QUEUE_BATCH_SIZE]
    /\ EnqueueOnly

\* sendBatch rejects: the loop is left through the catch block
SendChunkThrows ==
    /\ enq.pc = "sending"
    /\ enq.i < Len(enq.movies)
    /\ enq' = [enq EXCEPT !.pc = "threw"]
    /\ EnqueueOnly

\* the loop condition fails: every chunk was sent
AllQueued ==
    /\ enq.pc = "sending"
    /\ enq.i >= Len(enq.movies)
    /\ enq' = [enq EXCEPT !.pc = "queued"]
    /\ EnqueueOnly


\* ----------------------------------------------------------- category refresh
\* handleNowPlaying refreshes 'now_playing', handlePopularMovies 'popular'
Categories == {"now_playing", "popular"}

\* PRIMARY KEY (movie_id, category): the table holds a pair at most once
CategoryRow(id, category) == [movie_id |-> id, category |-> category]

\* SELECT ... FROM movie_categories WHERE category = ?
Members(rows, category) == {row.movie_id : row \in {x \in rows : x.category = category}}

\* data.results of the TMDB call, by movie id; the fields fetched and written
\* when the handler ends with no movie left out
FetchedResults == SUBSET MovieIds

\* calls of a clear-then-add handler in flight: one refresh and its readers
Refreshers == {1}

IdleRefresher == [pc |-> "idle", category |-> "none", todo |-> {}]

NoRefresh == [version |-> "none", category |-> "none", results |-> {}, out |-> "none",
              replaced |-> FALSE]

CategoryInit ==
    /\ movie_categories = {}
    /\ committed = [category \in Categories |-> {}]
    /\ refresher = [r \in Refreshers |-> IdleRefresher]
    /\ seen = [category |-> "none", rows |-> {}]
    /\ last = NoRefresh

\* ---- the handlers that refresh in one batch
\* plotburn_db.batch([DELETE ... WHERE category = ?, INSERT OR IGNORE ... per id]):
\* D1 runs the statements of a batch as one transaction
BatchRows_NoDelete(rows, category, ids) ==
    rows \cup {CategoryRow(id, category) : id \in ids}

BatchRows(rows, category, ids) ==
    {x \in rows : x.category # category} \cup {CategoryRow(id, category) : id \in ids}

\* one call of the handler: the TMDB fetch, the upsert of each movie (a failed
\* one is logged and left out of successfulMovieIds), then the batch
RefreshBatch(category, results, successfulMovieIds) ==
    /\ successfulMovieIds \subseteq results
    /\ movie_categories' = BatchRows(movie_categories, category, successfulMovieIds)
    /\ committed' = [committed EXCEPT ![category] = successfulMovieIds]
    /\ last' = IF successfulMovieIds = results
               THEN [version |-> "batch", category |-> category, results |-> results,
                     out |-> "refreshed",
                     replaced |-> ~(Members(movie_categories, category) \subseteq results)]
               ELSE [NoRefresh EXCEPT !.version = "batch", !.category = category,
                                      !.out = "partial"]
    /\ UNCHANGED <<refresher, seen>>
    /\ CategoryOnly

\* the batch rejects: the transaction is rolled back and the handler throws
BatchRejects(category) ==
    /\ last' = [NoRefresh EXCEPT !.version = "batch", !.category = category, !.out = "threw"]
    /\ UNCHANGED <<movie_categories, committed, refresher, seen>>
    /\ CategoryOnly

\* ---- the handlers that clear the category and add the movies one by one
\* the lowest id stands for the next movie of data.results
NextMovie(todo) == CHOOSE id \in todo : \A other \in todo : id <= other

\* the refresher's loop is over: the handler builds its response
AfterLoop(r, category, todo, rows) ==
    IF todo = {}
    THEN /\ refresher' = [refresher EXCEPT ![r] = IdleRefresher]
         /\ committed' = [committed EXCEPT ![category] = Members(rows, category)]
    ELSE /\ refresher' = [refresher EXCEPT ![r] =
                            [pc |-> "adding", category |-> category, todo |-> todo]]
         /\ UNCHANGED committed

\* refreshers are interchangeable: they arrive in order
Arrived(r) ==
    /\ refresher[r].pc = "idle"
    /\ \A other \in Refreshers : other < r => refresher[other].pc # "idle"

\* the TMDB fetch, then clearCategory: DELETE FROM movie_categories WHERE category = ?
ClearCategory(r, category, results) ==
    /\ Arrived(r)
    /\ movie_categories' = {x \in movie_categories : x.category # category}
    /\ AfterLoop(r, category, results, movie_categories')
    /\ UNCHANGED <<seen, last>>
    /\ CategoryOnly

\* clearCategory rejects: it is awaited outside any try block, the handler throws
ClearCategoryThrows(r, category) ==
    /\ Arrived(r)
    /\ last' = [NoRefresh EXCEPT !.version = "clearAndAdd", !.category = category,
                                 !.out = "threw"]
    /\ UNCHANGED <<movie_categories, committed, refresher, seen>>
    /\ CategoryOnly

\* one turn of the loop: upsertMovie, then addMovieToCategory (INSERT OR IGNORE);
\* when either rejects the movie is counted as failed and the loop goes on
SaveMovie(r, ok) ==
    /\ refresher[r].pc = "adding"
    /\ LET movie == NextMovie(refresher[r].todo)
           category == refresher[r].category
       IN  /\ movie_categories' =
                IF ok THEN movie_categories \cup {CategoryRow(movie, category)}
                ELSE movie_categories
           /\ AfterLoop(r, category, refresher[r].todo \ {movie}, movie_categories')
           /\ last' = IF ok THEN last
                      ELSE [NoRefresh EXCEPT !.version = "clearAndAdd",
                                             !.category = category, !.out = "movieFailed"]
    /\ UNCHANGED seen
    /\ CategoryOnly

\* ---- readers
\* getMoviesByCategory: the movies joined with the category's rows
GetMoviesByCategory(category) ==
    /\ seen' = [category |-> category, rows |-> Members(movie_categories, category)]
    /\ UNCHANGED <<movie_categories, committed, refresher, last>>
    /\ CategoryOnly


\* ------------------------------------------------- handleMovieRoast, step by step
\* flatrate providers TMDB can list for region IN
Providers == {"netflix", "prime"}

\* watchProviders.results['IN']: absent, without flatrate, or a flatrate list
WatchProviderResponses ==
    {[region |-> FALSE, hasFlatrate |-> FALSE, flatrate |-> {}],
     [region |-> TRUE, hasFlatrate |-> FALSE, flatrate |-> {}]}
        \cup {[region |-> TRUE, hasFlatrate |-> TRUE, flatrate |-> list] :
                    list \in SUBSET Providers}

IdleCall ==
    [pc |-> "idle", movie |-> NULL, providersToSave |-> {}, providers |-> "none",
     done |-> {}, failed |-> "none", out |-> "none"]

MovieRoastInit ==
    /\ streaming_providers = [m \in RoastMovies |-> {}]
    /\ roastCall = IdleCall

\* a step awaited outside the try block rejects: handleMovieRoast throws
CallThrows(step) ==
    [roastCall EXCEPT !.pc = "returned", !.failed = step, !.out = "threw"]

CallStep(step, ok, next) ==
    IF ok
    THEN [roastCall EXCEPT !.pc = next, !.done = @ \cup {step}]
    ELSE CallThrows(step)

\* 1. getRoast: an active roast is returned as it is
MovieRoastGetRoast(m, found) ==
    /\ roastCall.pc \in {"idle", "returned"}
    /\ roastCall' =
        IF found
        THEN [IdleCall EXCEPT !.pc = "returned", !.movie = m, !.out = "cached"]
        ELSE [IdleCall EXCEPT !.pc = "details", !.movie = m]
    /\ UNCHANGED streaming_providers
    /\ CallOnly

\* 2. fetchMovieDetails
MovieRoastDetails(ok) ==
    /\ roastCall.pc = "details"
    /\ roastCall' = CallStep("details", ok, "upsertMovie")
    /\ UNCHANGED streaming_providers
    /\ CallOnly

\* 3. upsertMovie
MovieRoastUpsertMovie(ok) ==
    /\ roastCall.pc = "upsertMovie"
    /\ roastCall' = CallStep("upsertMovie", ok, "watchProviders")
    /\ UNCHANGED streaming_providers
    /\ CallOnly

\* 4. the catch block of the provider step: log and go on
ProvidersCatch_Rethrow(what) ==
    [CallThrows("watchProviders") EXCEPT !.providers = what]

ProvidersCatch(what) ==
    [roastCall EXCEPT !.pc = "truth", !.providers = what, !.providersToSave = {}]

\* fetchWatchProviders returns
FetchWatchProviders(response) ==
    /\ roastCall.pc = "watchProviders"
    /\ roastCall' =
        IF response.region /\ response.hasFlatrate
        THEN [roastCall EXCEPT !.pc = "saveDelete", !.providersToSave = response.flatrate]
        ELSE [roastCall EXCEPT !.pc = "truth", !.providers = "nothingToSave"]
    /\ UNCHANGED streaming_providers
    /\ CallOnly

\* fetchWatchProviders throws (response not ok, network error)
FetchWatchProvidersThrows ==
    /\ roastCall.pc = "watchProviders"
    /\ roastCall' = ProvidersCatch("fetchThrew")
    /\ UNCHANGED streaming_providers
    /\ CallOnly

\* saveStreamingProviders, 1: DELETE the movie's providers of the region
SaveProvidersDelete ==
    /\ roastCall.pc = "saveDelete"
    /\ streaming_providers' = [streaming_providers EXCEPT ![roastCall.movie] = {}]
    /\ roastCall' =
        IF roastCall.providersToSave = {}
        THEN [roastCall EXCEPT !.pc = "truth", !.providers = "saved"]
        ELSE [roastCall EXCEPT !.pc = "saveInsert"]
    /\ CallOnly

\* saveStreamingProviders, 2: the batch of INSERTs
SaveProvidersInsert ==
    /\ roastCall.pc = "saveInsert"
    /\ streaming_providers' =
        [streaming_providers EXCEPT ![roastCall.movie] = roastCall.providersToSave]
    /\ roastCall' = [roastCall EXCEPT !.pc = "truth", !.providers = "saved",
                                      !.providersToSave = {}]
    /\ CallOnly

\* the DELETE or the batch rejects: what was deleted stays deleted
SaveProvidersThrows ==
    /\ roastCall.pc \in {"saveDelete", "saveInsert"}
    /\ roastCall' = ProvidersCatch("saveThrew")
    /\ UNCHANGED streaming_providers
    /\ CallOnly

\* 5. getOrCreateTruth
MovieRoastTruth(ok) ==
    /\ roastCall.pc = "truth"
    /\ roastCall' = CallStep("truth", ok, "generate")
    /\ UNCHANGED streaming_providers
    /\ CallOnly

\* 6. generateRoast
MovieRoastGenerate(ok) ==
    /\ roastCall.pc = "generate"
    /\ roastCall' = CallStep("generate", ok, "persist")
    /\ UNCHANGED streaming_providers
    /\ CallOnly

\* 8. upsertRoast, then the response
MovieRoastUpsertRoast(ok) ==
    /\ roastCall.pc = "persist"
    /\ roastCall' =
        IF ok
        THEN [roastCall EXCEPT !.pc = "returned", !.done = @ \cup {"persist"},
                               !.out = "generated"]
        ELSE CallThrows("persist")
    /\ UNCHANGED streaming_providers
    /\ CallOnly


\* --------------------------------------------- sequential orchestration loop
\* movies = Array.from(movieMap.values()): the loop works on positions 1 .. n
LoopMovies == 1..NumMovieIds

IdleLoop ==
    [pc |-> "idle", tracked |-> FALSE, n |-> 0, i |-> 0, cachedRoast |-> FALSE,
     processed |-> 0, cached |-> 0, generated |-> 0, failed |-> 0, failedIds |-> {},
     status |-> "none",
     calls |-> [k \in LoopMovies |-> 0], returned |-> {}]

LoopInit == loop = IdleLoop

\* status: results.failed === 0 ? 'success' : results.generated > 0 ? 'partial' : 'failed'
StatusOf(failed, generated) ==
    IF failed = 0 THEN "success"
    ELSE IF generated > 0 THEN "partial" ELSE "failed"

\* the loop is entered with the merged list; the version that keeps a
\* cron_runs row (tracked) holds a run id here
LoopStart(n, tracked) ==
    /\ loop.pc = "idle"
    /\ loop' = [IdleLoop EXCEPT !.pc = "roast", !.n = n, !.tracked = tracked]
    /\ LoopOnly

\* i++ and the loop condition
NextTurn(l) ==
    [l EXCEPT !.i = @ + 1, !.pc = IF l.i + 1 < l.n THEN "roast" ELSE "summary"]

\* catch (error) { results.failed++; results.failedIds.push(movie.id); ... }
LoopCatch(l) ==
    NextTurn([l EXCEPT !.failed = @ + 1, !.failedIds = @ \cup {l.i + 1}])

\* if (roastData.cached) results.cached++ else results.generated++
CountRoast(l) ==
    NextTurn(IF l.cachedRoast THEN [l EXCEPT !.cached = @ + 1]
             ELSE [l EXCEPT !.generated = @ + 1])

\* handleMovieRoast returns: results.processed++, then updateProgress in the
\* version that holds a run id, the cached / generated count in the other
LoopHandleMovieRoast(cached) ==
    /\ loop.pc = "roast"
    /\ loop.i < loop.n
    /\ LET called == [loop EXCEPT !.calls[loop.i + 1] = @ + 1,
                                  !.returned = @ \cup {loop.i + 1},
                                  !.processed = @ + 1,
                                  !.cachedRoast = cached]
       IN loop' = IF loop.tracked THEN [called EXCEPT !.pc = "progress"]
                  ELSE CountRoast(called)
    /\ LoopOnly

\* handleMovieRoast throws
LoopHandleMovieRoastThrows ==
    /\ loop.pc = "roast"
    /\ loop.i < loop.n
    /\ loop' = LoopCatch([loop EXCEPT !.calls[loop.i + 1] = @ + 1])
    /\ LoopOnly

\* await tracker.updateProgress(runId, results.titles, results.processed),
\* inside the try block of the turn
LoopUpdateProgress(ok) ==
    /\ loop.pc = "progress"
    /\ loop' = IF ok THEN CountRoast(loop) ELSE LoopCatch(loop)
    /\ LoopOnly

\* Step 5: the result summary; a list with no movie goes straight here
LoopSummary ==
    /\ \/ loop.pc = "summary"
       \/ loop.pc = "roast" /\ loop.i >= loop.n
    /\ loop' = [loop EXCEPT !.pc = "done", !.status = StatusOf(loop.failed, loop.generated)]
    /\ LoopOnly


\* ================================================================= Logger
\* a scheduled invocation's correlation id is its own: cron-${Date.now()}
Scheduled == 1..NumScheduled

\* logBuffers.get(id) when the map has no entry for id
NoBuffer == [present |-> FALSE, entries |-> <<>>]

\* no object at logs/<date>/<id>.json
NoFile == [puts |-> 0, entries |-> <<>>]

IdleScheduled == [pc |-> "idle", outcome |-> "none", added |-> <<>>, rejected |-> FALSE]

LogInit ==
    /\ logBuffers = [s \in Scheduled |-> NoBuffer]
    /\ r2 = [s \in Scheduled |-> NoFile]
    /\ sched = [s \in Scheduled |-> IdleScheduled]

\* constructor: if (!logBuffers.has(id)) logBuffers.set(id, [])
NewLogger(buffer) ==
    IF buffer.present THEN buffer ELSE [present |-> TRUE, entries |-> <<>>]

\* addEntry: const buffer = logBuffers.get(id); if (buffer) buffer.push(entry)
AddEntry(buffer, entry) ==
    IF buffer.present THEN [buffer EXCEPT !.entries = Append(@, entry)] ELSE buffer

\* flush: nothing is put when there is no buffer or an empty one; R2.put
\* writes the whole buffer to the file of the correlation id, or rejects (an
\* environment without the R2 binding writes nothing either)
Flushed(file, buffer, ok) ==
    IF buffer.present /\ Len(buffer.entries) > 0 /\ ok
    THEN [puts |-> file.puts + 1, entries |-> buffer.entries]
    ELSE file

\* (history) the put of this flush rejected
PutRejected(buffer, ok) == buffer.present /\ Len(buffer.entries) > 0 /\ ~ok

\* a logger of invocation s is handed an entry
Logged(s, entry, pc) ==
    /\ logBuffers' = [logBuffers EXCEPT ![s] = AddEntry(@, entry)]
    /\ sched' = [sched EXCEPT ![s].pc = pc, ![s].added = Append(@, entry)]
    /\ UNCHANGED r2
    /\ LogOnly

\* scheduled(): new Logger(env, '/cron/scheduled', 'SCHEDULED', correlationId),
\* logRequest (invocations are numbered in the order in which they start)
ScheduledStart(s) ==
    /\ sched[s].pc = "idle"
    /\ \A k \in Scheduled : k < s => sched[k].pc # "idle"
    /\ LET entry == [logger |-> "scheduled", kind |-> "request"] IN
       /\ logBuffers' = [logBuffers EXCEPT ![s] = AddEntry(NewLogger(@), entry)]
       /\ sched' = [sched EXCEPT ![s].pc = "run", ![s].added = Append(@, entry)]
    /\ UNCHANGED r2
    /\ LogOnly

\* runDailyRoastGeneration(env, correlationId): new Logger(env, '/cron/run',
\* 'SCHEDULED', correlationId), logRequest
RunStart(s) ==
    /\ sched[s].pc = "run"
    /\ LET entry == [logger |-> "run", kind |-> "request"] IN
       /\ logBuffers' = [logBuffers EXCEPT ![s] = AddEntry(NewLogger(@), entry)]
       /\ sched' = [sched EXCEPT ![s].pc = "running", ![s].added = Append(@, entry)]
    /\ UNCHANGED r2
    /\ LogOnly

RunOutcomes == {"completed", "skipped", "threw"}

\* the run ends: logResponse(200, cronResult), logWarn(skipped) or
\* logResponse(500, ...) before the rethrow
RunEnds(s, outcome) ==
    /\ sched[s].pc = "running"
    /\ LET entry == [logger |-> "run",
                     kind |-> CASE outcome = "completed" -> "response200"
                                [] outcome = "skipped" -> "warn"
                                [] OTHER -> "response500"] IN
       /\ logBuffers' = [logBuffers EXCEPT ![s] = AddEntry(@, entry)]
       /\ sched' = [sched EXCEPT ![s].pc = "runFlush", ![s].outcome = outcome,
                                 ![s].added = Append(@, entry)]
    /\ UNCHANGED r2
    /\ LogOnly

\* flush(finalStatus) of invocation s: put, then logBuffers.delete(id)
Flush(s, ok, pc) ==
    /\ r2' = [r2 EXCEPT ![s] = Flushed(@, logBuffers[s], ok)]
    /\ logBuffers' = [logBuffers EXCEPT ![s] = NoBuffer]
    /\ sched' = [sched EXCEPT ![s].pc = pc,
                              ![s].rejected = @ \/ PutRejected(logBuffers[s], ok)]
    /\ LogOnly

\* runDailyRoastGeneration, finally: await logger.flush(finalStatus)
RunFlush(s, ok) ==
    /\ sched[s].pc = "runFlush"
    /\ Flush(s, ok, "schedLog")

\* scheduled(): logResponse(200, { status: 'completed' }), or logError in the
\* catch block
ScheduledLogs(s) ==
    /\ sched[s].pc = "schedLog"
    /\ Logged(s, [logger |-> "scheduled",
                  kind |-> IF sched[s].outcome = "threw" THEN "error" ELSE "response200"],
              "schedFlush")

\* scheduled(), finally: await logger.flush(status)
ScheduledFlush(s, ok) ==
    /\ sched[s].pc = "schedFlush"
    /\ Flush(s, ok, "done")

\* ========================================================== checkRateLimit
RateCalls == 1..NumRateCalls

\* the clients; the calls fall into one window, so that the key
\* rl:${clientIP}:${windowKey} differs in the client only
ClientIPs == {"10.0.0.1", "10.0.0.2"}

\* kv.get(key) for a key that is not there (null, falsy as '' is)
NoValue == <<>>

\* (n).toString(): the decimal digits of n
RECURSIVE NumberToString(_)
NumberToString(n) == IF n < 10 THEN <<n>> ELSE Append(NumberToString(n \div 10), n % 10)

\* parseInt(text, 10) on a string of digits
RECURSIVE ParseInt(_)
ParseInt(text) ==
    IF Len(text) = 0 THEN 0
    ELSE 10 * ParseInt(SubSeq(text, 1, Len(text) - 1)) + text[Len(text)]

IdleRateCall ==
    [pc |-> "idle", clientIP |-> "none", count |-> 0, allowed |-> FALSE, remaining |-> 0]

RateInit ==
    /\ rateKV = [ip \in ClientIPs |-> NoValue]
    /\ rateCall = [c \in RateCalls |-> IdleRateCall]

\* const current = await kv.get(key); count = current ? parseInt(current, 10) : 0
\* (calls are numbered in the order in which they start)
RateGet(c, ip) ==
    /\ rateCall[c].pc = "idle"
    /\ \A k \in RateCalls : k < c => rateCall[k].pc # "idle"
    /\ rateCall' = [rateCall EXCEPT ![c].pc = "read", ![c].clientIP = ip,
                        ![c].count = IF rateKV[ip] = NoValue THEN 0 ELSE ParseInt(rateKV[ip])]
    /\ UNCHANGED rateKV
    /\ RateOnly

\* if (count >= maxRequests) return { allowed: false, remaining: 0 }
RateReject(c) ==
    /\ rateCall[c].pc = "read"
    /\ rateCall[c].count >= MaxRequests
    /\ rateCall' = [rateCall EXCEPT ![c].pc = "returned", ![c].allowed = FALSE,
                                    ![c].remaining = 0]
    /\ UNCHANGED rateKV
    /\ RateOnly

\* await kv.put(key, (count + 1).toString(), ...);
\* return { allowed: true, remaining: maxRequests - count - 1 }
RatePut(c) ==
    /\ rateCall[c].pc = "read"
    /\ rateCall[c].count < MaxRequests
    /\ rateKV' = [rateKV EXCEPT ![rateCall[c].clientIP] = NumberToString(rateCall[c].count + 1)]
    /\ rateCall' = [rateCall EXCEPT ![c].pc = "returned", ![c].allowed = TRUE,
                                    ![c].remaining = MaxRequests - rateCall[c].count - 1]
    /\ RateOnly

\* ========================================================== specifications
NextCron ==
    \/ Tick
    \/ \E c \in Callers, j \in JobNames : StartRunSelect(c, j)
    \/ \E c \in Callers : StartRunInsert(c)
    \/ \E c \in Callers, n \in MovieCounts : FetchCatalog(c, n)
    \/ \E c \in Callers : SendBatch(c)
    \/ \E c \in Callers : UpdateProgress(c)
    \/ \E c \in Callers : CompleteRunSelect(c)
    \/ \E c \in Callers, replied \in BOOLEAN : CompleteRunUpdate(c, replied)
    \/ \E c \in Callers : StepThrows(c)
    \/ \E c \in Callers : FailRunSelect(c)
    \/ \E c \in Callers : FailRunUpdate(c)
    \/ \E c \in Callers : FailRunThrows(c)

InitCron ==
    /\ now = 0
    /\ CronInit
    /\ RoastInit
    /\ TruthInit
    /\ EnqueueInit
    /\ CategoryInit
    /\ MovieRoastInit
    /\ LoopInit
    /\ LogInit
    /\ RateInit
    /\ QueueIdle

SpecCron == InitCron /\ [][NextCron]_vars

\* the same invocations on a platform where the statements of startRun may
\* fail and an invocation may die while it holds the lock
NextCronFaults ==
    \/ Tick
    \/ \E c \in Callers, j \in JobNames : StartRunSelect(c, j)
    \/ \E c \in Callers : StartRunInsert(c)
    \/ \E c \in Callers : StartRunThrows(c)
    \/ \E c \in Callers, n \in MovieCounts : FetchCatalog(c, n)
    \/ \E c \in Callers : SendBatch(c)
    \/ \E c \in Callers : UpdateProgress(c)
    \/ \E c \in Callers : CompleteRunSelect(c)
    \/ \E c \in Callers, replied \in BOOLEAN : CompleteRunUpdate(c, replied)
    \/ \E c \in Callers : StepThrows(c)
    \/ \E c \in Callers : FailRunSelect(c)
    \/ \E c \in Callers : FailRunUpdate(c)
    \/ \E c \in Callers : FailRunThrows(c)
    \/ \E c \in Callers : Crash(c)

SpecCronFaults == InitCron /\ [][NextCronFaults]_vars

NextRoast ==
    \/ \E w \in Writers, m \in RoastMovies, l \in Languages, r \in GeneratedRoasts :
            UpsertRoastDeactivate(w, m, l, r)
    \/ \E w \in Writers : UpsertRoastInsert(w)
    \/ \E m \in RoastMovies, l \in Languages : GetActiveRoast(m, l)

InitRoast ==
    /\ now = 0
    /\ CronInit
    /\ RoastInit
    /\ TruthInit
    /\ EnqueueInit
    /\ CategoryInit
    /\ MovieRoastInit
    /\ LoopInit
    /\ LogInit
    /\ RateInit
    /\ QueueIdle

SpecRoast == InitRoast /\ [][NextRoast]_vars

\* the roasts table with statements that can fail
NextRoastFaults ==
    \/ \E w \in Writers, m \in RoastMovies, l \in Languages, r \in GeneratedRoasts :
            UpsertRoastDeactivate(w, m, l, r)
    \/ \E w \in Writers : UpsertRoastInsert(w)
    \/ \E w \in Writers : UpsertRoastInsertThrows(w)
    \/ \E m \in RoastMovies, l \in Languages : GetActiveRoast(m, l)

SpecRoastFaults == InitRoast /\ [][NextRoastFaults]_vars

NextTruth ==
    \/ \E i \in Invokers, m \in TruthMovies, ok \in BOOLEAN : HandleMovieTruth(i, m, ok)
    \/ \E i \in Invokers, m \in TruthMovies : HandleMovieRoastTruth(i, m)
    \/ \E i \in Invokers : GetOrCreateTruthRead(i)
    \/ \E i \in Invokers : FetchBraveSearchCached(i)
    \/ \E i \in Invokers, resp \in BraveResponses : FetchBraveSearchApi(i, resp)
    \/ \E i \in Invokers : FetchBraveSearchFails(i)
    \/ \E i \in Invokers, x \in GrokExtractions : ExtractWithGrok(i, x)
    \/ \E i \in Invokers : ExtractWithGrokFails(i)
    \/ \E i \in Invokers : StoreAndReturn(i)

InitTruth ==
    /\ now = 0
    /\ CronInit
    /\ RoastInit
    /\ TruthInit
    /\ EnqueueInit
    /\ CategoryInit
    /\ MovieRoastInit
    /\ LoopInit
    /\ LogInit
    /\ RateInit
    /\ QueueIdle

SpecTruth == InitTruth /\ [][NextTruth]_vars

\* the pipeline on a store that holds a record of the current second
InitTruthStored ==
    /\ now = 0
    /\ CronInit
    /\ RoastInit
    /\ \E resp \in BraveResponses, x \in GrokExtractions : TruthStored(resp, x)
    /\ EnqueueInit
    /\ CategoryInit
    /\ MovieRoastInit
    /\ LoopInit
    /\ LogInit
    /\ RateInit
    /\ QueueIdle

SpecTruthStored == InitTruthStored /\ [][NextTruth]_vars

\* the two tables of derived records with every operation that writes to them:
\* the pipeline called from handleMovieRoast, upsertRoast and
\* toggleRoastFeatured
NextStore ==
    \/ \E i \in StoreInvokers, m \in TruthMovies : HandleMovieRoastTruth(i, m)
    \/ \E i \in StoreInvokers : GetOrCreateTruthRead(i)
    \/ \E i \in StoreInvokers : FetchBraveSearchCached(i)
    \/ \E i \in StoreInvokers, resp \in StoreBraveResponses : FetchBraveSearchApi(i, resp)
    \/ \E i \in StoreInvokers : FetchBraveSearchFails(i)
    \/ \E i \in StoreInvokers, x \in StoreGrokExtractions : ExtractWithGrok(i, x)
    \/ \E i \in StoreInvokers : ExtractWithGrokFails(i)
    \/ \E i \in StoreInvokers : StoreAndReturn(i)
    \/ \E w \in StoreWriters, m \in StoreRoastMovies, l \in Languages, r \in GeneratedRoasts :
            UpsertRoastDeactivate(w, m, l, r)
    \/ \E w \in StoreWriters : UpsertRoastInsert(w)
    \/ \E w \in StoreWriters : UpsertRoastInsertThrows(w)
    \/ \E id \in RoastIds : ToggleRoastFeatured(id)

SpecStore == InitRoast /\ [][NextStore]_vars

NextQueue ==
    \/ \E q \in Consumers, b \in Batches : Deliver(q, b)
    \/ \E q \in Consumers : ExistenceCheck(q)
    \/ \E q \in Consumers : ExistenceCheckThrows(q)
    \/ \E q \in Consumers : HandleMovieRoastGetRoast(q)
    \/ \E q \in Consumers : HandleMovieRoastThrows(q)
    \/ \E q \in Consumers, ok \in BOOLEAN : GenerateRoast(q, ok)
    \/ \E q \in Consumers : ConsumerUpsertDeactivate(q)
    \/ \E q \in Consumers : ConsumerUpsertInsert(q)
    \/ \E q \in Consumers : SettleBatch(q)

InitQueue ==
    /\ now = 0
    /\ CronInit
    /\ RoastInit
    /\ TruthInit
    /\ EnqueueInit
    /\ CategoryInit
    /\ MovieRoastInit
    /\ LoopInit
    /\ LogInit
    /\ RateInit
    /\ QueueInit

SpecQueue == InitQueue /\ [][NextQueue]_vars

\* the consumer with a roasts table whose INSERT can fail
NextQueueFaults ==
    \/ \E q \in Consumers, b \in Batches : Deliver(q, b)
    \/ \E q \in Consumers : ExistenceCheck(q)
    \/ \E q \in Consumers : ExistenceCheckThrows(q)
    \/ \E q \in Consumers : HandleMovieRoastGetRoast(q)
    \/ \E q \in Consumers : HandleMovieRoastThrows(q)
    \/ \E q \in Consumers, ok \in BOOLEAN : GenerateRoast(q, ok)
    \/ \E q \in Consumers : ConsumerUpsertDeactivate(q)
    \/ \E q \in Consumers : ConsumerUpsertInsert(q)
    \/ \E q \in Consumers : SettleBatch(q)
    \/ \E q \in Consumers : ConsumerUpsertInsertThrows(q)

SpecQueueFaults == InitQueue /\ [][NextQueueFaults]_vars

\* the consumer as configured: batches of max_batch_size messages
NextQueueFair ==
    \/ \E q \in Consumers, b \in ConfiguredBatches : Deliver(q, b)
    \/ \E q \in Consumers : ExistenceCheck(q)
    \/ \E q \in Consumers : ExistenceCheckThrows(q)
    \/ \E q \in Consumers : HandleMovieRoastGetRoast(q)
    \/ \E q \in Consumers : HandleMovieRoastThrows(q)
    \/ \E q \in Consumers, ok \in BOOLEAN : GenerateRoast(q, ok)
    \/ \E q \in Consumers : ConsumerUpsertDeactivate(q)
    \/ \E q \in Consumers : ConsumerUpsertInsert(q)
    \/ \E q \in Consumers : SettleBatch(q)

\* with batches of one message the messages are interchangeable, and so are the
\* movies: the queue holds messages of one movie and a last one of either movie
InitQueueFair ==
    /\ InitQueue
    /\ \A k \in MsgIds : k < NumMessages => msgs[k].movieId = msgs[1].movieId

\* the platform goes on delivering queued messages, and every awaited call of
\* the handler returns or throws
SpecQueueFair == InitQueueFair /\ [][NextQueueFair]_vars /\ WF_vars(NextQueueFair)

NextEnqueue ==
    \/ \E list \in NowPlayingLists : FetchNowPlayingMovies(list)
    \/ \E list \in PopularLists : FetchPopularMovies(list)
    \/ Merge
    \/ SendChunk
    \/ SendChunkThrows
    \/ AllQueued

InitEnqueue ==
    /\ now = 0
    /\ CronInit
    /\ RoastInit
    /\ TruthInit
    /\ EnqueueInit
    /\ CategoryInit
    /\ MovieRoastInit
    /\ LoopInit
    /\ LogInit
    /\ RateInit
    /\ QueueIdle

SpecEnqueue == InitEnqueue /\ [][NextEnqueue]_vars

NextBatchRefresh ==
    \/ \E category \in Categories, results \in FetchedResults, ok \in FetchedResults :
            RefreshBatch(category, results, ok)
    \/ \E category \in Categories : BatchRejects(category)

InitRefresh ==
    /\ now = 0
    /\ CronInit
    /\ RoastInit
    /\ TruthInit
    /\ EnqueueInit
    /\ CategoryInit
    /\ MovieRoastInit
    /\ LoopInit
    /\ LogInit
    /\ RateInit
    /\ QueueIdle

SpecBatchRefresh == InitRefresh /\ [][NextBatchRefresh]_vars

NextClearAndAdd ==
    \/ \E r \in Refreshers, category \in Categories, results \in FetchedResults :
            ClearCategory(r, category, results)
    \/ \E r \in Refreshers, category \in Categories : ClearCategoryThrows(r, category)
    \/ \E r \in Refreshers, ok \in BOOLEAN : SaveMovie(r, ok)
    \/ \E category \in Categories : GetMoviesByCategory(category)

SpecClearAndAdd == InitRefresh /\ [][NextClearAndAdd]_vars

NextMovieRoast ==
    \/ \E m \in RoastMovies, found \in BOOLEAN : MovieRoastGetRoast(m, found)
    \/ \E ok \in BOOLEAN : MovieRoastDetails(ok)
    \/ \E ok \in BOOLEAN : MovieRoastUpsertMovie(ok)
    \/ \E response \in WatchProviderResponses : FetchWatchProviders(response)
    \/ FetchWatchProvidersThrows
    \/ SaveProvidersDelete
    \/ SaveProvidersInsert
    \/ SaveProvidersThrows
    \/ \E ok \in BOOLEAN : MovieRoastTruth(ok)
    \/ \E ok \in BOOLEAN : MovieRoastGenerate(ok)
    \/ \E ok \in BOOLEAN : MovieRoastUpsertRoast(ok)

InitMovieRoast ==
    /\ now = 0
    /\ CronInit
    /\ RoastInit
    /\ TruthInit
    /\ EnqueueInit
    /\ CategoryInit
    /\ MovieRoastInit
    /\ LoopInit
    /\ LogInit
    /\ RateInit
    /\ QueueIdle

SpecMovieRoast == InitMovieRoast /\ [][NextMovieRoast]_vars

NextLoop ==
    \/ \E n \in 0..NumMovieIds, tracked \in BOOLEAN : LoopStart(n, tracked)
    \/ \E cached \in BOOLEAN : LoopHandleMovieRoast(cached)
    \/ LoopHandleMovieRoastThrows
    \/ \E ok \in BOOLEAN : LoopUpdateProgress(ok)
    \/ LoopSummary

InitLoop ==
    /\ now = 0
    /\ CronInit
    /\ RoastInit
    /\ TruthInit
    /\ EnqueueInit
    /\ CategoryInit
    /\ MovieRoastInit
    /\ LoopInit
    /\ LogInit
    /\ RateInit
    /\ QueueIdle

SpecLoop == InitLoop /\ [][NextLoop]_vars

NextLog ==
    \/ \E s \in Scheduled : ScheduledStart(s)
    \/ \E s \in Scheduled : RunStart(s)
    \/ \E s \in Scheduled, outcome \in RunOutcomes : RunEnds(s, outcome)
    \/ \E s \in Scheduled, ok \in BOOLEAN : RunFlush(s, ok)
    \/ \E s \in Scheduled : ScheduledLogs(s)
    \/ \E s \in Scheduled, ok \in BOOLEAN : ScheduledFlush(s, ok)

SpecLog == InitLoop /\ [][NextLog]_vars

NextRate ==
    \/ \E c \in RateCalls, ip \in ClientIPs : RateGet(c, ip)
    \/ \E c \in RateCalls : RateReject(c)
    \/ \E c \in RateCalls : RatePut(c)

SpecRate == InitLoop /\ [][NextRate]_vars

\* ------------------------------------------------------------ claims: cron
\* C1: in every reachable state, for every job name, at most one cron_runs
\* row has status = 'running', whatever the interleaving of startRun,
\* updateProgress, completeRun and failRun of the concurrent callers.
C1_MutexInvariant ==
    \A j \in JobNames : Cardinality(RunningRows(cron_runs, j)) <= 1

\* a caller passed the SELECT together with another one and was then
\* rejected by the INSERT, while the other's row is running
C1_Witness ==
    \E c \in Callers :
        /\ caller[c].res = "already_running"
        /\ cconc[c] # {}
        /\ RunningRows(cron_runs, caller[c].job) # {}

\* two startRun calls that overlapped, both past their SELECT (no running
\* row beforehand), both returned or thrown
Raced(c, d) ==
    /\ c # d
    /\ d \in cconc[c]
    /\ caller[c].res # "none"
    /\ caller[d].res # "none"

ExactlyOneWins(c, d) ==
    \/ caller[c].res = "ok" /\ caller[d].res = "already_running"
    \/ caller[d].res = "ok" /\ caller[c].res = "already_running"

\* C2 as stated: of two concurrent startRun calls with no running row
\* beforehand, exactly one returns a run id and the other fails with
\* 'already running'; never both return a run id, never both fail.
C2_ExactlyOneAcquires ==
    \A c, d \in Callers : Raced(c, d) => ExactlyOneWins(c, d)

\* nothing else happened to the lock while the call was in flight: no
\* third caller acquired it, and no run of the job was completed or failed
Undisturbed(c, d) ==
    /\ ~creleased[c]
    /\ cothers[c] \subseteq {d}

\* C2 amended: of two concurrent startRun calls with no running row
\* beforehand, exactly one returns a run id and the other fails with
\* 'already running', provided that until both have returned no third
\* caller acquires the lock and the winner's run is not completed or failed.
C2_ExactlyOneAcquiresWhileHeld ==
    \A c, d \in Callers :
        Raced(c, d) /\ Undisturbed(c, d) /\ Undisturbed(d, c) => ExactlyOneWins(c, d)

C2_Witness ==
    \E c, d \in Callers :
        /\ Raced(c, d) /\ Undisturbed(c, d) /\ Undisturbed(d, c)
        /\ caller[c].res = "ok" /\ caller[d].res = "already_running"

\* ------------------------------------------------ claims: cron orchestration
Terminal == {"success", "failed"}

\* C15: a startRun call that runs its lock check while the job has a running
\* row ends there with the 'already running' error, without a run id, and a
\* startRun call that reaches its INSERT while the job has a running row ends
\* with the same error; either step leaves cron_runs as it was.
C15_LockContention ==
    [][\A c \in Callers :
        /\ ( /\ caller[c].pc = "idle" /\ caller'[c].pc # "idle"
             /\ RunningRows(cron_runs, caller'[c].job) # {} )
           => /\ caller'[c].pc = "ended"
              /\ caller'[c].res = "already_running"
              /\ caller'[c].runId = NULL
              /\ cron_runs' = cron_runs
        /\ ( /\ caller[c].pc = "selected" /\ caller'[c].pc # "selected"
             /\ RunningRows(cron_runs, caller[c].job) # {} )
           => /\ caller'[c].res = "already_running"
              /\ caller'[c].runId = NULL
              /\ cron_runs' = cron_runs]_vars

\* C15 witness: a startRun call that raced with nobody was turned away by its
\* lock check while the holder's row is running.
C15_Witness ==
    \E c \in Callers :
        /\ caller[c].res = "already_running"
        /\ cconc[c] = {}
        /\ Cardinality(RunningRows(cron_runs, caller[c].job)) = 1
        /\ Len(cron_runs) = 1

\* C16: the status of a row changes only from running to success or failed,
\* and a row that is success or failed keeps its status, finished_at and
\* duration_ms in every later step.
C16_TerminalIsFinal ==
    [][\A id \in 1..Len(cron_runs) :
        /\ cron_runs'[id].status # cron_runs[id].status
           => cron_runs[id].status = "running" /\ cron_runs'[id].status \in Terminal
        /\ cron_runs[id].status \in Terminal
           => /\ cron_runs'[id].status = cron_runs[id].status
              /\ cron_runs'[id].finished_at = cron_runs[id].finished_at
              /\ cron_runs'[id].duration_ms = cron_runs[id].duration_ms]_vars

\* C17: every row with status success or failed has a finished_at and a
\* duration_ms, finished_at >= started_at and duration_ms = finished_at -
\* started_at.
C17_DurationInvariant ==
    \A id \in 1..Len(cron_runs) :
        cron_runs[id].status \in Terminal =>
            /\ cron_runs[id].finished_at # NULL
            /\ cron_runs[id].duration_ms # NULL
            /\ cron_runs[id].finished_at >= cron_runs[id].started_at
            /\ cron_runs[id].duration_ms =
                   cron_runs[id].finished_at - cron_runs[id].started_at

\* C17 witness: a run that took time was completed, another was failed.
C17_Witness ==
    \E id, jd \in 1..Len(cron_runs) :
        /\ cron_runs[id].status = "success" /\ cron_runs[id].duration_ms = TickMs
        /\ cron_runs[jd].status = "failed" /\ cron_runs[jd].duration_ms # NULL

\* C18: an invocation whose startRun failed with 'already running' returns
\* 'skipped' and holds no run id; the step in which it is turned away leaves
\* cron_runs as it was, before it no catalog was fetched and no message sent,
\* and after it the invocation does nothing more (no fetch, no sendBatch, no
\* completeRun, no failRun).
C18_SkippedDoesNothing ==
    /\ [](\A c \in Callers :
            caller[c].res = "already_running" =>
                /\ caller[c].pc = "ended" /\ caller[c].out = "skipped"
                /\ caller[c].runId = NULL /\ caller[c].failRun = "none")
    /\ [][\A c \in Callers :
            /\ (caller[c].out # "skipped" /\ caller'[c].out = "skipped")
               => /\ cron_runs' = cron_runs
                  /\ caller[c].movies = NULL /\ caller[c].sent = 0
            /\ caller[c].out = "skipped" => caller'[c] = caller[c]]_vars

\* C18 witness: an invocation was skipped while the holder of the lock is in
\* the middle of its enqueue loop, its row still running.
C18_Witness ==
    \E c, d \in Callers :
        /\ caller[c].out = "skipped"
        /\ caller[d].pc = "enqueue" /\ caller[d].sent = QUEUE_BATCH_SIZE
        /\ cron_runs[caller[d].runId].status = "running"
        /\ cron_runs[caller[d].runId].movies_roasted_count = NULL

\* the invocation has returned or thrown after startRun gave it a run id
EndedWithRun(c) == caller[c].pc = "ended" /\ caller[c].runId # NULL

C20_CompleteAfterEnqueue ==
    /\ [][\A c \in Callers :
            (caller[c].pc # "completing" /\ caller'[c].pc = "completing")
            => /\ caller[c].movies # NULL
               /\ caller[c].sent = caller[c].movies
               /\ cron_runs[caller[c].runId].movies_roasted_count = caller[c].movies]_vars
    /\ [](\A id \in 1..Len(cron_runs) :
            cron_runs[id].status = "success" =>
                cron_runs[id].movies_roasted_count \in MovieCounts)
    /\ [](\A c \in Callers :
            (caller[c].movies # NULL /\ caller[c].sent < caller[c].movies)
            => cron_runs[caller[c].runId].status = "running")

\* C20 witness: a run of two chunks was sent, recorded and completed.
C20_Witness ==
    \E c \in Callers :
        /\ EndedWithRun(c) /\ caller[c].out = "success"
        /\ cron_runs[caller[c].runId].status = "success"
        /\ cron_runs[caller[c].runId].movies_roasted_count > QUEUE_BATCH_SIZE

\* updateProgress is the call the invocation is in
InUpdateProgress(c) == caller[c].pc = "enqueue" /\ EnqueueDone(c)

\* C22: when updateProgress is the call in progress, whatever becomes of it the
\* invocation goes on towards completeRun: its next step is not the catch
\* block that fails the run.
C22_ProgressFailureTolerated ==
    [][\A c \in Callers :
        (InUpdateProgress(c) /\ caller'[c] # caller[c]) => caller'[c].pc = "progressed"]_vars

\* the run of an invocation that died while the run was running
Stale(id) == \E c \in Callers : caller[c].pc = "crashed" /\ caller[c].runId = id

\* C26: the row of an invocation that died before completeRun or failRun is
\* running and stays as it is in every later step, and every startRun for its job that reaches a
\* statement's answer while the row is there ends with 'already running' or
\* with the statement's own failure, never with a run id.
C26_StaleLockStays ==
    /\ [](\A id \in 1..Len(cron_runs) : Stale(id) => cron_runs[id].status = "running")
    /\ [][\A id \in 1..Len(cron_runs) : Stale(id) => cron_runs'[id] = cron_runs[id]]_vars
    /\ [][\A c \in Callers :
            ( /\ caller[c].pc \in {"idle", "selected"} /\ caller'[c].pc # caller[c].pc
              /\ \E id \in 1..Len(cron_runs) :
                    Stale(id) /\ cron_runs[id].job_name = caller'[c].job )
            => /\ caller'[c].res \in {"already_running", "storage_error"}
               /\ caller'[c].runId = NULL
               /\ Len(cron_runs') = Len(cron_runs)]_vars

\* C26 witness: an invocation died holding the lock, its row is running, and a
\* later invocation was turned away with 'already running'.
C26_Witness ==
    \E c, d \in Callers :
        /\ caller[c].pc = "crashed" /\ Stale(caller[c].runId)
        /\ caller[d].res = "already_running" /\ cconc[d] = {}
        /\ now > cron_runs[caller[c].runId].started_at

\* C27: startRun ends with 'already running' only in a step that found a
\* running row of the job (at the SELECT, or at the INSERT through the
\* uniqueness constraint); a startRun that failed for another reason makes
\* runDailyRoastGeneration throw, not return 'skipped'.
C27_OnlyContentionIsBusy ==
    /\ [][\A c \in Callers :
            (caller[c].res # "already_running" /\ caller'[c].res = "already_running")
            => RunningRows(cron_runs, caller'[c].job) # {}]_vars
    /\ [](\A c \in Callers :
            caller[c].res = "storage_error" =>
                /\ caller[c].pc = "ended" /\ caller[c].out = "threw"
                /\ caller[c].runId = NULL)

\* C27 witness: a statement of startRun failed while no run of the job was
\* running, and the invocation threw.
C27_Witness ==
    \E c \in Callers :
        /\ caller[c].res = "storage_error" /\ caller[c].out = "threw"
        /\ RunningRows(cron_runs, caller[c].job) = {}

\* ---------------------------------------------------------- claims: roasts
\* C3: for every (movie, language) at most one roast row has is_active = 1 in
\* every reachable state, under any interleaving of upsertRoast calls; and in
\* the state in which an upsertRoast call returns, exactly one has.
C3_ActiveVersionInvariant ==
    /\ [](\A m \in RoastMovies, l \in Languages :
            Cardinality(ActiveRows(roasts, m, l)) <= 1)
    /\ [][\A w \in Writers :
            writer[w].pc = "deactivated" /\ writer'[w].pc = "returned"
            => Cardinality(ActiveRows(roasts', writer[w].movie, writer[w].language)) = 1]_vars

\* two upsertRoast calls for the same pair overlapped: one returned, the other's
\* INSERT was rejected by the index
C3_Witness ==
    \E w, v \in Writers :
        /\ writer[w].pc = "returned" /\ writer[v].pc = "threw"
        /\ writer[w].movie = writer[v].movie
        /\ Cardinality(ActiveRows(roasts, writer[w].movie, writer[w].language)) = 1

\* C4: once a (movie, language) has an active roast, no getActiveRoast ever
\* finds none: deactivation and insertion take effect as one atomic unit.
C4_NeverZeroActive ==
    lastRead.hadRoast => lastRead.id # NULL

\* C31: when upsertRoast returns for a pair (movie, language) for which an
\* earlier upsertRoast call has returned, exactly one row of the pair is
\* active, it is the row of the call that returns and holds that call's
\* roast, and the row of the earlier call is still in the table with
\* is_active = 0 and its own roast.
C31_SecondUpsertReplaces ==
    [][\A v, w \in Writers :
          ( /\ v # w
            /\ writer[w].pc = "returned"
            /\ writer[v].pc = "deactivated" /\ writer'[v].pc = "returned"
            /\ writer[w].movie = writer[v].movie
            /\ writer[w].language = writer[v].language )
          => /\ ActiveRows(roasts', writer[v].movie, writer[v].language) = {writer'[v].id}
             /\ roasts'[writer'[v].id].roast_json = Stringify(writer[v].roast)
             /\ writer[w].id \in 1..Len(roasts')
             /\ writer[w].id # writer'[v].id
             /\ roasts'[writer[w].id].is_active = 0
             /\ roasts'[writer[w].id].roast_json = Stringify(writer[w].roast)]_vars

\* C31 witness: two upsertRoast calls for the same movie and language, with
\* different roasts, have returned one after the other.
C31_Witness ==
    \E v, w \in Writers :
        /\ v # w
        /\ writer[v].pc = "returned" /\ writer[w].pc = "returned"
        /\ writer[v].movie = writer[w].movie /\ writer[v].language = writer[w].language
        /\ writer[v].roast # writer[w].roast
        /\ writer[w].id < writer[v].id
        /\ ActiveRows(roasts, writer[v].movie, writer[v].language) = {writer[v].id}

\* C32 (as stated): when upsertRoast fails, the roasts of the pair that were
\* active before the call are still active afterwards.
C32_FailedUpsertKeepsActive ==
    [][\A v \in Writers :
          (writer[v].pc = "deactivated" /\ writer'[v].pc = "threw")
          => writer[v].before \subseteq
                 ActiveRows(roasts', writer[v].movie, writer[v].language)]_vars

\* the rows of a table as they were are the first rows of the table as it is
KeepsRows(old, new) ==
    /\ Len(new) >= Len(old)
    /\ \A k \in 1..Len(old) : new[k] = old[k]

\* a roast row is what it was, except for is_featured, and for is_active
\* going from 1 to 0
KeepsRoast(old, new) ==
    /\ [new EXCEPT !.is_active = old.is_active, !.is_featured = old.is_featured] = old
    /\ new.is_active # old.is_active => (old.is_active = 1 /\ new.is_active = 0)

\* C37: no step changes or removes an extraction row (rows are only added),
\* and no step removes a roast row or changes a roast row in anything but
\* is_featured and is_active, which only goes from 1 to 0.
C37_AppendOnly ==
    [][/\ KeepsRows(extractions, extractions')
       /\ Len(roasts') >= Len(roasts)
       /\ \A k \in 1..Len(roasts) : KeepsRoast(roasts[k], roasts'[k])]_vars

\* C37 witness: two extraction records are stored, a roast was replaced by a
\* second upsertRoast and is inactive, and a roast is featured.
C37_Witness ==
    /\ Len(extractions) >= 2
    /\ \E k, j \in 1..Len(roasts) :
         /\ k < j
         /\ roasts[k].movie_id = roasts[j].movie_id
         /\ roasts[k].is_active = 0 /\ roasts[j].is_active = 1
    /\ \E k \in 1..Len(roasts) : roasts[k].is_featured = 1


\* ----------------------------------------------- claims: extraction pipeline
\* what the stored payloads hold, read off the stored text
HoldsEvidence(text) == text \in {Stringify(EvResults), Stringify(EvFaq), Stringify(EvInfobox)}
HoldsNoEvidence(text) == text = Stringify(EvEmpty)
HoldsContent(text) == text \in {Stringify(CTitle), Stringify(CPlot), Stringify(CReception)}
HoldsNoContent(text) == text \in {Stringify(JNull), Stringify(CEmpty), Stringify(CRatingsOnly)}

\* invocation i is one of getOrCreateTruth and has read record rec
ReadByPipeline(i) == inv[i].rec # NULL /\ inv[i].cached # "true"

\* C5: an invocation of getOrCreateTruth whose latest extraction record holds
\* valid evidence and valid content returns the stored record, having called
\* neither the evidence provider nor the extraction provider and having
\* inserted no record; this holds for every such invocation, however many follow
\* one another.
C5_CacheHitCallsNothing ==
    \A i \in Invokers :
        ( /\ ReadByPipeline(i)
          /\ HoldsEvidence(extractions[inv[i].rec].evidence_json)
          /\ HoldsContent(extractions[inv[i].rec].content_json) )
        => /\ inv[i].pc = "responded"
           /\ inv[i].served = "stored"
           /\ inv[i].evidenceCalls = 0
           /\ inv[i].extractionCalls = 0
           /\ inv[i].inserts = 0

\* C5 witness: a getOrCreateTruth invocation has answered from a record with
\* valid evidence and valid content that an earlier invocation stored.
C5_Witness ==
    \E i \in Invokers :
        /\ ReadByPipeline(i)
        /\ inv[i].pc = "responded"
        /\ HoldsEvidence(extractions[inv[i].rec].evidence_json)
        /\ HoldsContent(extractions[inv[i].rec].content_json)
        /\ \E k \in Invokers : k # i /\ inv[k].insertedId = inv[i].rec

\* C6 (as stated): when a first invocation on an empty store has stored its
\* record and a second invocation is answered from that record, the second
\* Truth equals the first (content bytes, fetched-at, citations, usage).
C6_SecondCallIdentical ==
    \A i, j \in Invokers :
        ( /\ i # j
          /\ inv[i].pc = "responded" /\ inv[i].served = "fresh"
          /\ inv[i].rec = NULL /\ inv[i].inserts = 1
          /\ inv[j].pc = "responded" /\ inv[j].served = "stored"
          /\ inv[j].cached = "false"
          /\ inv[j].rec = inv[i].insertedId )
        => inv[j].truth = inv[i].truth

\* C7: an invocation of getOrCreateTruth whose latest record holds valid
\* evidence but null, empty or invalid content never calls the evidence
\* provider, calls the extraction provider exactly once, and, when it returns,
\* has inserted one new record whose evidence payload and citations are those
\* of the record it read.
C7_PartialResume ==
    \A i \in Invokers :
        ( /\ ReadByPipeline(i)
          /\ HoldsEvidence(extractions[inv[i].rec].evidence_json)
          /\ HoldsNoContent(extractions[inv[i].rec].content_json) )
        => /\ inv[i].evidenceCalls = 0
           /\ inv[i].served # "stored"
           /\ inv[i].pc \in {"extract", "store", "responded", "threw"}
           /\ inv[i].pc # "extract" => inv[i].extractionCalls = 1
           /\ inv[i].pc = "responded" =>
                /\ inv[i].inserts = 1
                /\ inv[i].insertedId \in 1..Len(extractions)
                /\ inv[i].insertedId # inv[i].rec
                /\ extractions[inv[i].insertedId].evidence_json =
                       extractions[inv[i].rec].evidence_json
                /\ extractions[inv[i].insertedId].citations_json =
                       extractions[inv[i].rec].citations_json

\* C7 witness: such an invocation has returned.
C7_Witness ==
    \E i \in Invokers :
        /\ ReadByPipeline(i)
        /\ HoldsEvidence(extractions[inv[i].rec].evidence_json)
        /\ HoldsNoContent(extractions[inv[i].rec].content_json)
        /\ inv[i].pc = "responded"
        /\ inv[i].extractionCalls = 1

C10_EmptyPayloadNeverCached ==
    \A i \in Invokers :
        inv[i].cached = "true" =>
            ~HoldsNoContent(extractions[inv[i].rec].content_json)

\* C28 (as stated): no extraction record stores an empty extraction object
\* as its content; an empty or malformed provider output leaves the table
\* without a new record.
C28_EmptyExtractionNeverStored ==
    \A id \in DOMAIN extractions :
        extractions[id].content_json # Stringify(CEmpty)

\* the record of the movie that was inserted last, NULL for none
MostRecentExtraction(rows, movie) ==
    IF MovieExtractions(rows, movie) = {} THEN NULL
    ELSE CHOOSE i \in MovieExtractions(rows, movie) :
            \A k \in MovieExtractions(rows, movie) : k <= i

\* C34 (as stated): the record getOrCreateTruth reads is the record of the
\* movie that was inserted last, also when an earlier record carries the same
\* fetched_at second.
C34_ReadsMostRecentRecord ==
    [][\A i \in Invokers :
          (inv[i].pc = "truth" /\ inv'[i].pc # "truth")
          => inv'[i].rec = MostRecentExtraction(extractions, inv[i].movie)]_vars

\* invocation i of getOrCreateTruth has read a record with valid content and
\* empty evidence
ReadContentOnly(i) ==
    /\ ReadByPipeline(i)
    /\ HoldsNoEvidence(extractions[inv[i].rec].evidence_json)
    /\ HoldsContent(extractions[inv[i].rec].content_json)

C36_FailureLeavesStoresUnchanged ==
    \A i \in Invokers :
        (inv[i].pc = "threw" /\ inv[i].evidenceCalls + inv[i].extractionCalls > 0)
        => inv[i].inserts = 0 /\ inv[i].kvPuts = 0

\* C36 (amended): an invocation of getOrCreateTruth in which a provider failed
\* has inserted no extraction record, and the step at which the provider
\* fails leaves the extractions table as it was (the search result the
\* invocation fetched stays in SEARCH_KV).
C36_FailureInsertsNoRecord ==
    /\ [](\A i \in Invokers :
            (inv[i].pc = "threw" /\ inv[i].evidenceCalls + inv[i].extractionCalls > 0)
            => inv[i].inserts = 0 /\ inv[i].insertedId = NULL)
    /\ [][\A i \in Invokers :
            (inv[i].pc \in {"search", "extract"} /\ inv'[i].pc = "threw")
            => extractions' = extractions]_vars

\* C36 witness: an invocation fetched fresh evidence from the API, its
\* extraction failed, and the extractions table is empty while SEARCH_KV
\* holds the search result.
C36_Witness ==
    \E i \in Invokers :
        /\ inv[i].pc = "threw"
        /\ inv[i].evidenceCalls = 1 /\ inv[i].kvPuts = 1
        /\ inv[i].extractionCalls = 1
        /\ extractions = <<>>
        /\ searchKV[inv[i].movie] # NoSearch


\* ---------------------------------------------------- claims: queue consumer
OkResults == {"existed", "succeeded"}
ThrewResults == {"checkThrew", "processThrew"}

\* C11: a delivery whose existence check ran while the movie had an active
\* roast is acknowledged without handleMovieRoast being invoked and without a
\* call of the generation provider; so when the first delivery of a movie's
\* message generated and stored the roast and the message is delivered again
\* (a second message with the same movie), the two deliveries together made
\* exactly one generation-provider call.
C11_DedupUnderRedelivery ==
    /\ \A k \in MsgIds :
         msgs[k].last.hadRoast =>
            /\ msgs[k].last.result = "existed"
            /\ msgs[k].last.acks = 1 /\ msgs[k].last.retries = 0
            /\ msgs[k].last.invoked = 0
            /\ msgs[k].last.generated = 0
    /\ \A k1, k2 \in MsgIds :
         ( /\ k1 # k2 /\ msgs[k1].movieId = msgs[k2].movieId
           /\ msgs[k1].attempts = 1 /\ msgs[k1].last.result = "succeeded"
           /\ msgs[k1].last.generated >= 1
           /\ msgs[k2].last.hadRoast )
         => msgs[k1].last.generated + msgs[k2].last.generated = 1

\* C11 witness: the first delivery generated and stored the roast and was
\* acknowledged; the second delivery for the same movie found the roast and
\* was acknowledged too.
C11_Witness ==
    \E k1, k2 \in MsgIds :
        /\ k1 # k2 /\ msgs[k1].movieId = msgs[k2].movieId
        /\ msgs[k1].state = "acked" /\ msgs[k1].attempts = 1
        /\ msgs[k1].last.result = "succeeded" /\ msgs[k1].last.generated = 1
        /\ msgs[k2].state = "acked" /\ msgs[k2].last.hadRoast
        /\ msgs[k2].last.result = "existed"

\* a message of the batch the loop has dealt with
Handled(q, p) ==
    /\ cons[q].pc \notin {"idle"}
    /\ p \in 1..Len(cons[q].batch)
    /\ p < cons[q].idx \/ cons[q].pc = "done"

\* C12: for every message of a batch the handler calls ack or retry, one of
\* them and once: none while the message is being processed, exactly one when
\* the loop has dealt with it; ack exactly when the roast existed or the
\* processing succeeded, retry exactly when the check or the processing threw.
C12_ExactlyOneAckOrRetry ==
    /\ \A k \in MsgIds :
         /\ msgs[k].last.acks + msgs[k].last.retries <= 1
         /\ msgs[k].last.acks = 1 <=> msgs[k].last.result \in OkResults
         /\ msgs[k].last.retries = 1 <=> msgs[k].last.result \in ThrewResults
    /\ \A q \in Consumers : \A p \in 1..MaxBatch :
         Handled(q, p) =>
            msgs[cons[q].batch[p]].last.acks + msgs[cons[q].batch[p]].last.retries = 1

\* C12 witness: a delivery whose processing threw was retried, and it is not
\* the message's first delivery.
C12_Witness ==
    \E q \in Consumers : \E p \in 1..MaxBatch :
        /\ Handled(q, p)
        /\ msgs[cons[q].batch[p]].last.result = "processThrew"
        /\ msgs[cons[q].batch[p]].last.retries = 1
        /\ msgs[cons[q].batch[p]].attempts = 2

\* C13: when handleMovieQueueBatch returns, every message of the batch has
\* been processed and acknowledged or retried according to its own result,
\* whatever happened to the others; and a step of the handler changes no
\* message other than the one the loop is at.
C13_SiblingsUnaffected ==
    /\ [](\A q \in Consumers :
            cons[q].pc = "done" =>
                \A p \in 1..Len(cons[q].batch) :
                    LET m == msgs[cons[q].batch[p]] IN
                    /\ m.last.result # "none"
                    /\ m.last.result \in OkResults => m.last.acks = 1 /\ m.last.retries = 0
                    /\ m.last.result \in ThrewResults => m.last.retries = 1 /\ m.last.acks = 0)
    /\ [][\A q \in Consumers :
            (cons[q].pc \notin {"idle", "done"} /\ cons'[q] # cons[q]) =>
                \A k \in MsgIds : k # Current(q) => msgs'[k] = msgs[k]]_vars

\* C13 witness: a batch of two whose first message failed and was retried and
\* whose second message was processed and acknowledged.
C13_Witness ==
    \E q \in Consumers :
        /\ cons[q].pc = "done"
        /\ Len(cons[q].batch) >= 2
        /\ msgs[cons[q].batch[1]].last.retries = 1
        /\ msgs[cons[q].batch[2]].last.result = "succeeded"
        /\ msgs[cons[q].batch[2]].last.acks = 1

\* C14: every message is eventually acknowledged or in the dead-letter queue
\* and stays there, and no message is delivered more than 1 + max_retries times.
C14_EventuallySettled ==
    /\ <>[](\A k \in MsgIds : msgs[k].state \in {"acked", "dlq"})
    /\ [](\A k \in MsgIds : msgs[k].attempts <= MaxRetries + 1)

\* C14 witness: a message failed on every delivery and is in the dead-letter
\* queue after 1 + max_retries deliveries.
C14_Witness ==
    \E k \in MsgIds : msgs[k].state = "dlq" /\ msgs[k].attempts = MaxRetries + 1

\* C33 (as stated): when two consumer invocations hold deliveries for the same
\* movie at the same time and the movie had no active roast when their
\* existence checks ran, the generation provider is called for at most one of
\* the two deliveries.
C33_GenerationAtMostOnce ==
    \A q, r \in Consumers : \A k, j \in MsgIds :
        ( /\ q # r
          /\ cons[q].pc # "idle" /\ cons[r].pc # "idle"
          /\ \E p \in 1..Len(cons[q].batch) : cons[q].batch[p] = k
          /\ \E p \in 1..Len(cons[r].batch) : cons[r].batch[p] = j
          /\ msgs[k].movieId = msgs[j].movieId
          /\ ~msgs[k].last.hadRoast /\ ~msgs[j].last.hadRoast )
        => ~(msgs[k].last.generated > 0 /\ msgs[j].last.generated > 0)

\* C38 (as stated): once handleMovieRoast has succeeded for a movie, the
\* getRoast of every later handleMovieRoast call for the movie, unless it
\* throws, finds the active roast, so that the call returns it and goes on to
\* no provider and no write.
C38_LaterCallsServedFromStore ==
    [][\A q \in Consumers :
          ( /\ cons[q].pc = "getRoast"
            /\ cons'[q] # cons[q]
            /\ msgs'[Current(q)].last.retries = msgs[Current(q)].last.retries
            /\ \E j \in MsgIds :
                 /\ j # Current(q)
                 /\ msgs[j].movieId = msgs[Current(q)].movieId
                 /\ msgs[j].state = "acked"
                 /\ msgs[j].last.result = "succeeded" )
          => /\ cons'[q].pc # "generate"
             /\ msgs'[Current(q)].last.result = "succeeded"]_vars


\* ------------------------------------------------- claims: merge and enqueue
IdsOf(list) == {list[k].id : k \in 1..Len(list)}

\* the positions of the messages handed to sendBatch: call, place in the call
Slots == {<<c, k>> \in (1..Len(enq.sent)) \X (1..QUEUE_BATCH_SIZE) : k <= Len(enq.sent[c])}

\* C21: no sendBatch call carries more than 100 messages, and once the loop has
\* ended the calls together carry exactly one message per distinct movie id of
\* the two lists, in the order of the merged list with no gap and no overlap
\* between consecutive chunks; a message whose id is in the popular list has
\* the popular list's entry.
C21_OneMessagePerMovie ==
    /\ \A c \in 1..Len(enq.sent) : Len(enq.sent[c]) \in 1..QUEUE_BATCH_SIZE
    /\ enq.pc = "queued" =>
        LET ids == IdsOf(enq.nowPlayingMovies) \cup IdsOf(enq.popularMovies)
        IN  /\ \A id \in ids :
                Cardinality({p \in Slots : enq.sent[p[1]][p[2]].movieId = id}) = 1
            /\ \A p \in Slots : enq.sent[p[1]][p[2]].movieId \in ids
            /\ \A p \in Slots :
                /\ enq.sent[p[1]][p[2]]
                    = MessageBody(enq.movies[(p[1] - 1) * QUEUE_BATCH_SIZE + p[2]])
                /\ enq.sent[p[1]][p[2]].movieId \in IdsOf(enq.popularMovies) =>
                    \E k \in 1..Len(enq.popularMovies) :
                        /\ enq.popularMovies[k].id = enq.sent[p[1]][p[2]].movieId
                        /\ enq.popularMovies[k].title = enq.sent[p[1]][p[2]].title
            /\ Cardinality(Slots) = Len(enq.movies)

\* a run whose lists share movies and whose messages needed a second and a
\* third sendBatch call, the last one not full
C21_Witness ==
    /\ enq.pc = "queued"
    /\ IdsOf(enq.nowPlayingMovies) \cap IdsOf(enq.popularMovies) # {}
    /\ Len(enq.sent) = 3
    /\ Len(enq.sent[3]) < QUEUE_BATCH_SIZE

\* ---------------------------------------------------- claims: category refresh
\* C23: while the latest refresh event is a batch refresh of category C whose
\* upserts all succeeded, the rows of C are exactly the fetched ids, whatever
\* rows C had before.
C23_RefreshedIsExactlyFetched ==
    (last.version = "batch" /\ last.out = "refreshed") =>
        Members(movie_categories, last.category) = last.results

\* a batch refresh whose delete dropped a movie that was not fetched again
C23_Witness ==
    /\ last.version = "batch"
    /\ last.out = "refreshed"
    /\ last.replaced
    /\ last.results # {}

\* a refresh of the category has deleted its rows and has movies left to add
InWindow(category) ==
    \E r \in Refreshers :
        /\ refresher[r].pc = "adding"
        /\ refresher[r].category = category

\* C24 (as stated): a getMoviesByCategory that runs while a refresh of its
\* category is between the delete and the last insert returns the members the
\* previous refresh left, and when a statement of a refresh rejects, the
\* category holds the members the previous refresh left.
C24_RefreshIsAtomic ==
    /\ [][(seen' # seen /\ seen'.category \in Categories /\ InWindow(seen'.category))
            => seen'.rows = committed[seen'.category]]_vars
    /\ [][(last' # last /\ last'.out \in {"threw", "movieFailed"})
            => Members(movie_categories', last'.category) = committed[last'.category]]_vars

\* ---------------------------------------------------- claims: handleMovieRoast
InProviderStep == roastCall.pc \in {"watchProviders", "saveDelete", "saveInsert"}

\* C25: every step taken inside the watch-provider block, a rejected fetch or
\* save included, stays in the block or goes on to getOrCreateTruth; a call
\* that throws threw in another step; and a call whose truth, generation and
\* persistence steps succeeded ends with the generated response.
C25_ProvidersNeverBlock ==
    /\ [][InProviderStep =>
            (roastCall'.pc \in {"saveDelete", "saveInsert", "truth"}
                /\ roastCall'.out = "none")]_vars
    /\ [](roastCall.out = "threw" => roastCall.failed # "watchProviders")
    /\ []((roastCall.pc = "returned" /\ {"truth", "generate", "persist"} \subseteq roastCall.done)
            => roastCall.out = "generated")

\* a call that ended with the generated roast although the provider fetch or
\* the provider save threw
C25_Witness ==
    /\ roastCall.pc = "returned"
    /\ roastCall.out = "generated"
    /\ roastCall.providers \in {"fetchThrew", "saveThrew"}
    /\ {"truth", "generate", "persist"} \subseteq roastCall.done

\* ------------------------------------------------ claims: sequential loop
\* C29 (as stated): a run that reached its summary called handleMovieRoast
\* exactly once for every movie, whatever failed on the way, and its counters
\* satisfy roasts_processed + roasts_failed = movies_fetched and
\* roasts_cached + roasts_generated = roasts_processed.
C29_EveryMovieCountedOnce ==
    loop.pc = "done" =>
        /\ \A k \in 1..loop.n : loop.calls[k] = 1
        /\ loop.processed + loop.failed = loop.n
        /\ loop.cached + loop.generated = loop.processed

\* C30 (as stated): the status of a run's result is 'success' when
\* handleMovieRoast failed for no movie, 'partial' when it failed for some
\* movies and returned for others, and 'failed' when it failed for all of them.
C30_StatusFromMovies ==
    loop.pc = "done" =>
        LET succeeded == loop.returned
            failedMovies == (1..loop.n) \ loop.returned
        IN  /\ failedMovies = {} => loop.status = "success"
            /\ (failedMovies # {} /\ succeeded # {}) => loop.status = "partial"
            /\ (failedMovies # {} /\ succeeded = {}) => loop.status = "failed"


\* ------------------------------------------------------------ claims: Logger
\* the entries of a sequence, as a set
EntriesOf(entries) == {entries[k] : k \in 1..Len(entries)}

\* C39 (as stated): when a scheduled invocation has made its final flush and
\* no R2 put rejected, every entry its loggers were handed is in the log file
\* of its correlation id, once.
C39_NoEntryDropped ==
    \A s \in Scheduled :
        (sched[s].pc = "done" /\ ~sched[s].rejected)
        => /\ EntriesOf(sched[s].added) \subseteq EntriesOf(r2[s].entries)
           /\ Len(r2[s].entries) = Len(sched[s].added)


\* ---------------------------------------------------- claims: checkRateLimit
\* C40 (as stated): at most maxRequests calls of one client and window are
\* answered allowed = true, however the calls interleave, and a call that is
\* rejected leaves the counter as it was.
C40_AtMostMaxAllowed ==
    /\ [](\A ip \in ClientIPs :
            Cardinality({c \in RateCalls :
                            /\ rateCall[c].pc = "returned"
                            /\ rateCall[c].clientIP = ip
                            /\ rateCall[c].allowed})
                <= MaxRequests)
    /\ [][\A c \in RateCalls :
            ( /\ rateCall[c].pc # "returned"
              /\ rateCall'[c].pc = "returned"
              /\ ~rateCall'[c].allowed )
            => rateKV' = rateKV]_vars

=============================================================================
